---------------------------- MODULE Spec2Model ----------------------------
(***************************************************************************)
(* WordCraft: the multiplayer room coordinator (server/game-rooms.ts) and  *)
(* the single-player game state machine (lib/game-context.tsx over         *)
(* lib/scrabble-engine.ts).                                                *)
(***************************************************************************)
EXTENDS Integers, Sequences, FiniteSets, TLC

(***************************************************************************)
(* Static data                                                             *)
(***************************************************************************)

\* The letter table, in the insertion order Object.entries walks it.
TILE_DISTRIBUTION ==
  <<
  [letter |-> "A", count |-> 9, value |-> 1],
  [letter |-> "B", count |-> 2, value |-> 3],
  [letter |-> "C", count |-> 2, value |-> 3],
  [letter |-> "D", count |-> 4, value |-> 2],
  [letter |-> "E", count |-> 12, value |-> 1],
  [letter |-> "F", count |-> 2, value |-> 4],
  [letter |-> "G", count |-> 3, value |-> 2],
  [letter |-> "H", count |-> 2, value |-> 4],
  [letter |-> "I", count |-> 9, value |-> 1],
  [letter |-> "J", count |-> 1, value |-> 8],
  [letter |-> "K", count |-> 1, value |-> 5],
  [letter |-> "L", count |-> 4, value |-> 1],
  [letter |-> "M", count |-> 2, value |-> 3],
  [letter |-> "N", count |-> 6, value |-> 1],
  [letter |-> "O", count |-> 8, value |-> 1],
  [letter |-> "P", count |-> 2, value |-> 3],
  [letter |-> "Q", count |-> 1, value |-> 10],
  [letter |-> "R", count |-> 6, value |-> 1],
  [letter |-> "S", count |-> 4, value |-> 1],
  [letter |-> "T", count |-> 6, value |-> 1],
  [letter |-> "U", count |-> 4, value |-> 1],
  [letter |-> "V", count |-> 2, value |-> 4],
  [letter |-> "W", count |-> 2, value |-> 4],
  [letter |-> "X", count |-> 1, value |-> 8],
  [letter |-> "Y", count |-> 2, value |-> 4],
  [letter |-> "Z", count |-> 1, value |-> 10],
  [letter |-> "?", count |-> 2, value |-> 0]
  >>

\* The lexicon; a word is the sequence of its letters.
COMMON_WORDS ==
  {
  <<"A","A">>, <<"A","B">>, <<"A","D">>, <<"A","E">>, <<"A","G">>, <<"A","H">>, <<"A","I">>,
  <<"A","L">>, <<"A","M">>, <<"A","N">>, <<"A","R">>, <<"A","S">>, <<"A","T">>, <<"A","W">>,
  <<"A","X">>, <<"A","Y">>, <<"B","A">>, <<"B","E">>, <<"B","I">>, <<"B","O">>, <<"B","Y">>,
  <<"D","A">>, <<"D","E">>, <<"D","O">>, <<"E","D">>, <<"E","F">>, <<"E","H">>, <<"E","L">>,
  <<"E","M">>, <<"E","N">>, <<"E","R">>, <<"E","S">>, <<"E","T">>, <<"E","W">>, <<"E","X">>,
  <<"F","A">>, <<"F","E">>, <<"G","I">>, <<"G","O">>, <<"H","A">>, <<"H","E">>, <<"H","I">>,
  <<"H","M">>, <<"H","O">>, <<"I","D">>, <<"I","F">>, <<"I","N">>, <<"I","S">>, <<"I","T">>,
  <<"J","O">>, <<"K","A">>, <<"K","I">>, <<"L","A">>, <<"L","I">>, <<"L","O">>, <<"M","A">>,
  <<"M","E">>, <<"M","I">>, <<"M","M">>, <<"M","O">>, <<"M","U">>, <<"M","Y">>, <<"N","A">>,
  <<"N","E">>, <<"N","O">>, <<"N","U">>, <<"O","D">>, <<"O","E">>, <<"O","F">>, <<"O","H">>,
  <<"O","I">>, <<"O","K">>, <<"O","M">>, <<"O","N">>, <<"O","P">>, <<"O","R">>, <<"O","S">>,
  <<"O","W">>, <<"O","X">>, <<"O","Y">>, <<"P","A">>, <<"P","E">>, <<"P","I">>, <<"P","O">>,
  <<"Q","I">>, <<"R","E">>, <<"S","H">>, <<"S","I">>, <<"S","O">>, <<"T","A">>, <<"T","I">>,
  <<"T","O">>, <<"U","H">>, <<"U","M">>, <<"U","N">>, <<"U","P">>, <<"U","S">>, <<"U","T">>,
  <<"W","E">>, <<"W","O">>, <<"X","I">>, <<"X","U">>, <<"Y","A">>, <<"Y","E">>, <<"Z","A">>,
  <<"T","H","E">>, <<"A","N","D">>, <<"F","O","R">>, <<"A","R","E">>, <<"B","U","T">>,
  <<"N","O","T">>, <<"Y","O","U">>, <<"A","L","L">>, <<"C","A","N">>, <<"H","E","R">>,
  <<"W","A","S">>, <<"O","N","E">>, <<"O","U","R">>, <<"O","U","T">>, <<"D","A","Y">>,
  <<"H","A","D">>, <<"H","A","S">>, <<"H","I","S">>, <<"H","O","W">>, <<"M","A","N">>,
  <<"N","E","W">>, <<"N","O","W">>, <<"O","L","D">>, <<"S","E","E">>, <<"W","A","Y">>,
  <<"W","H","O">>, <<"B","O","Y">>, <<"D","I","D">>, <<"G","E","T">>, <<"H","I","M">>,
  <<"H","I","T">>, <<"H","O","T">>, <<"L","E","T">>, <<"M","A","Y">>, <<"R","U","N">>,
  <<"S","A","Y">>, <<"S","H","E">>, <<"T","O","O">>, <<"U","S","E">>, <<"D","A","D">>,
  <<"M","O","M">>, <<"S","E","T">>, <<"T","E","N">>, <<"T","O","P">>, <<"R","E","D">>,
  <<"B","I","G">>, <<"B","A","D">>, <<"E","N","D">>, <<"F","A","R">>, <<"P","U","T">>,
  <<"R","A","N">>, <<"S","I","T">>, <<"T","R","Y">>, <<"A","S","K">>, <<"C","A","R">>,
  <<"E","A","T">>, <<"F","U","N">>, <<"G","O","D">>, <<"H","A","T">>, <<"J","A","R">>,
  <<"K","E","Y">>, <<"L","A","P">>, <<"M","A","P">>, <<"N","E","T">>, <<"O","W","L">>,
  <<"P","E","N">>, <<"R","A","G">>, <<"S","A","T">>, <<"T","A","P">>, <<"V","A","N">>,
  <<"W","A","R">>, <<"Y","A","M">>, <<"Z","A","P">>, <<"A","C","E">>, <<"A","G","E">>,
  <<"A","I","D">>, <<"A","I","M">>, <<"A","I","R">>, <<"A","L","E">>, <<"A","N","T">>,
  <<"A","P","E">>, <<"A","R","C">>, <<"A","R","K">>, <<"A","R","M">>, <<"A","R","T">>,
  <<"A","T","E">>, <<"A","W","E">>, <<"A","X","E">>, <<"B","A","G">>, <<"B","A","N">>,
  <<"B","A","R">>, <<"B","A","T">>, <<"B","E","D">>, <<"B","E","T">>, <<"B","I","T">>,
  <<"B","O","W">>, <<"B","O","X">>, <<"B","U","D">>, <<"B","U","G">>, <<"B","U","S">>,
  <<"B","U","Y">>, <<"C","A","B">>, <<"C","A","P">>, <<"C","A","T">>, <<"C","O","P">>,
  <<"C","O","T">>, <<"C","O","W">>, <<"C","R","Y">>, <<"C","U","B">>, <<"C","U","P">>,
  <<"C","U","T">>, <<"D","A","M">>, <<"D","E","N">>, <<"D","E","W">>, <<"D","I","G">>,
  <<"D","I","M">>, <<"D","I","P">>, <<"D","O","C">>, <<"D","O","G">>, <<"D","O","T">>,
  <<"D","R","Y">>, <<"D","U","B">>, <<"D","U","G">>, <<"D","U","N">>, <<"D","U","O">>,
  <<"E","A","R">>, <<"E","E","L">>, <<"E","G","G">>, <<"E","L","F">>, <<"E","L","K">>,
  <<"E","L","M">>, <<"E","M","U">>, <<"E","R","A">>, <<"E","V","E">>, <<"E","W","E">>,
  <<"E","Y","E">>, <<"F","A","N">>, <<"F","A","T">>, <<"F","A","X">>, <<"F","E","D">>,
  <<"F","E","W">>, <<"F","I","G">>, <<"F","I","N">>, <<"F","I","T">>, <<"F","I","X">>,
  <<"F","L","Y">>, <<"F","O","B">>, <<"F","O","E">>, <<"F","O","G">>, <<"F","O","P">>,
  <<"F","O","X">>, <<"F","R","Y">>, <<"F","U","R">>, <<"G","A","B">>, <<"G","A","G">>,
  <<"G","A","P">>, <<"G","A","S">>, <<"G","E","L">>, <<"G","E","M">>, <<"G","N","U">>,
  <<"G","O","B">>, <<"G","O","T">>, <<"G","U","M">>, <<"G","U","N">>, <<"G","U","T">>,
  <<"G","U","Y">>, <<"G","Y","M">>, <<"A","B","L","E">>, <<"A","L","S","O">>, <<"A","R","E","A">>,
  <<"A","R","M","Y">>, <<"A","W","A","Y">>, <<"B","A","C","K">>, <<"B","A","L","L">>,
  <<"B","A","N","D">>, <<"B","A","N","K">>, <<"B","A","S","E">>, <<"B","A","T","H">>,
  <<"B","E","A","N">>, <<"B","E","A","R">>, <<"B","E","A","T">>, <<"B","E","E","N">>,
  <<"B","E","E","R">>, <<"B","E","L","L">>, <<"B","E","L","T">>, <<"B","E","N","D">>,
  <<"B","E","S","T">>, <<"B","I","L","L">>, <<"B","I","R","D">>, <<"B","I","T","E">>,
  <<"B","L","O","W">>, <<"B","L","U","E">>, <<"B","O","A","T">>, <<"B","O","D","Y">>,
  <<"B","O","L","D">>, <<"B","O","M","B">>, <<"B","O","N","D">>, <<"B","O","N","E">>,
  <<"B","O","O","K">>, <<"B","O","O","T">>, <<"B","O","R","E">>, <<"B","O","R","N">>,
  <<"B","O","S","S">>, <<"B","O","T","H">>, <<"B","O","W","L">>, <<"B","U","L","K">>,
  <<"B","U","R","N">>, <<"B","U","S","Y">>, <<"C","A","K","E">>, <<"C","A","L","L">>,
  <<"C","A","L","M">>, <<"C","A","M","E">>, <<"C","A","M","P">>, <<"C","A","R","D">>,
  <<"C","A","R","E">>, <<"C","A","R","T">>, <<"C","A","S","E">>, <<"C","A","S","H">>,
  <<"C","A","S","T">>, <<"C","A","V","E">>, <<"C","H","I","P">>, <<"C","I","T","Y">>,
  <<"C","L","A","D">>, <<"C","L","A","Y">>, <<"C","L","I","P">>, <<"C","L","U","B">>,
  <<"C","L","U","E">>, <<"C","O","A","L">>, <<"C","O","A","T">>, <<"C","O","D","E">>,
  <<"C","O","I","N">>, <<"C","O","L","D">>, <<"C","O","L","E">>, <<"C","O","M","E">>,
  <<"C","O","O","K">>, <<"C","O","O","L">>, <<"C","O","P","E">>, <<"C","O","P","Y">>,
  <<"C","O","R","D">>, <<"C","O","R","E">>, <<"C","O","R","N">>, <<"C","O","S","T">>,
  <<"C","R","E","W">>, <<"C","R","O","P">>, <<"C","R","O","W">>, <<"C","U","R","E">>,
  <<"C","U","R","L">>, <<"C","U","T","E">>, <<"D","A","L","E">>, <<"D","A","M","E">>,
  <<"D","A","M","N">>, <<"D","A","R","E">>, <<"D","A","R","K">>, <<"D","A","S","H">>,
  <<"D","A","T","A">>, <<"D","A","T","E">>, <<"D","A","W","N">>, <<"D","E","A","D">>,
  <<"D","E","A","F">>, <<"D","E","A","L">>, <<"D","E","A","N">>, <<"D","E","A","R">>,
  <<"D","E","B","T">>, <<"D","E","C","K">>, <<"D","E","E","D">>, <<"D","E","E","M">>,
  <<"D","E","E","P">>, <<"D","E","E","R">>, <<"D","E","N","Y">>, <<"D","E","S","K">>,
  <<"D","I","A","L">>, <<"D","I","C","E">>, <<"D","I","E","T">>, <<"D","I","R","E">>,
  <<"D","I","R","T">>, <<"D","I","S","H">>, <<"D","I","S","K">>, <<"D","O","C","K">>,
  <<"D","O","E","S">>, <<"D","O","N","E">>, <<"D","O","O","M">>, <<"D","O","O","R">>,
  <<"D","O","S","E">>, <<"D","O","W","N">>, <<"D","R","A","G">>, <<"D","R","A","W">>,
  <<"D","R","E","W">>, <<"D","R","O","P">>, <<"D","R","U","M">>, <<"D","U","A","L">>,
  <<"D","U","E","L">>, <<"D","U","K","E">>, <<"D","U","L","L">>, <<"D","U","M","B">>,
  <<"D","U","M","P">>, <<"D","U","N","E">>, <<"D","U","S","T">>, <<"D","U","T","Y">>,
  <<"E","A","C","H">>, <<"E","A","R","L">>, <<"E","A","R","N">>, <<"E","A","S","E">>,
  <<"E","A","S","T">>, <<"E","A","S","Y">>, <<"E","D","G","E">>, <<"E","D","I","T">>,
  <<"E","L","S","E">>, <<"E","V","E","N">>, <<"E","V","E","R">>, <<"E","V","I","L">>,
  <<"E","X","A","M">>, <<"E","X","E","C">>, <<"F","A","C","E">>, <<"F","A","C","T">>,
  <<"F","A","D","E">>, <<"F","A","I","L">>, <<"F","A","I","R">>, <<"F","A","K","E">>,
  <<"F","A","L","L">>, <<"F","A","M","E">>, <<"F","A","N","G">>, <<"F","A","R","E">>,
  <<"F","A","R","M">>, <<"F","A","S","T">>, <<"F","A","T","E">>, <<"F","E","A","R">>,
  <<"F","E","A","T">>, <<"F","E","E","D">>, <<"F","E","E","L">>, <<"F","E","E","T">>,
  <<"F","E","L","L">>, <<"F","E","L","T">>, <<"F","I","L","E">>, <<"F","I","L","L">>,
  <<"F","I","L","M">>, <<"F","I","N","D">>, <<"F","I","N","E">>, <<"F","I","R","E">>,
  <<"F","I","R","M">>, <<"F","I","S","H">>, <<"F","I","S","T">>, <<"F","L","A","G">>,
  <<"F","L","A","T">>, <<"F","L","E","D">>, <<"F","L","E","W">>, <<"F","L","I","P">>,
  <<"F","L","O","W">>, <<"F","O","A","M">>, <<"F","O","L","D">>, <<"F","O","L","K">>,
  <<"F","O","N","D">>, <<"F","O","N","T">>, <<"F","O","O","D">>, <<"F","O","O","L">>,
  <<"F","O","O","T">>, <<"F","O","R","D">>, <<"F","O","R","E">>, <<"F","O","R","K">>,
  <<"F","O","R","M">>, <<"F","O","R","T">>, <<"F","O","U","L">>, <<"F","O","U","R">>,
  <<"F","R","E","E">>, <<"F","R","O","M">>, <<"F","U","E","L">>, <<"F","U","L","L">>,
  <<"F","U","N","D">>, <<"F","U","R","Y">>, <<"F","U","S","E">>, <<"G","A","I","N">>,
  <<"G","A","L","E">>, <<"G","A","M","E">>, <<"G","A","N","G">>, <<"G","A","P","E">>,
  <<"G","A","T","E">>, <<"G","A","V","E">>, <<"G","A","Z","E">>, <<"G","E","A","R">>,
  <<"G","E","N","E">>, <<"G","I","F","T">>, <<"G","I","R","L">>, <<"G","I","V","E">>,
  <<"G","L","A","D">>, <<"G","L","E","N">>, <<"G","L","O","W">>, <<"G","L","U","E">>,
  <<"G","O","A","T">>, <<"G","O","E","S">>, <<"G","O","L","D">>, <<"G","O","L","F">>,
  <<"G","O","N","E">>, <<"G","O","O","D">>, <<"G","R","A","B">>, <<"G","R","A","Y">>,
  <<"G","R","E","W">>, <<"G","R","I","D">>, <<"G","R","I","M">>, <<"G","R","I","N">>,
  <<"G","R","I","P">>, <<"G","R","O","W">>, <<"G","U","L","F">>, <<"G","U","R","U">>,
  <<"G","U","S","T">>, <<"Q","U","I","Z">>, <<"Q","U","A","G">>, <<"Q","U","A","D">>,
  <<"Q","O","P","H">>, <<"J","A","Z","Z">>, <<"B","U","Z","Z">>, <<"F","I","Z","Z">>,
  <<"F","U","Z","Z">>, <<"R","A","Z","Z">>, <<"T","I","Z","Z">>, <<"Z","E","A","L">>,
  <<"Z","E","R","O">>, <<"Z","I","N","C">>, <<"Z","O","N","E">>, <<"Z","O","O","M">>,
  <<"J","I","N","X">>, <<"J","I","V","E">>, <<"J","O","K","E">>, <<"J","U","M","P">>,
  <<"J","U","R","Y">>, <<"J","U","S","T">>, <<"T","A","X","I">>, <<"T","E","X","T">>,
  <<"N","E","X","T">>, <<"E","X","I","T">>, <<"A","P","E","X">>, <<"O","X","E","N">>,
  <<"K","N","O","B">>, <<"K","N","E","E">>, <<"K","N","E","W">>, <<"K","N","I","T">>,
  <<"K","N","O","T">>, <<"K","N","O","W">>, <<"W","R","E","N">>, <<"W","R","A","P">>,
  <<"W","R","I","T">>, <<"W","A","K","E">>, <<"W","A","G","E">>, <<"W","A","D","E">>,
  <<"W","A","I","T">>, <<"W","A","L","K">>, <<"W","A","L","L">>, <<"W","A","N","T">>,
  <<"W","A","R","D">>, <<"W","A","R","M">>, <<"W","A","R","N">>, <<"W","A","R","P">>,
  <<"W","A","S","H">>, <<"W","A","V","E">>, <<"W","E","A","K">>, <<"W","E","A","R">>,
  <<"W","E","E","D">>, <<"W","E","E","K">>, <<"W","E","L","L">>, <<"W","E","N","T">>,
  <<"W","E","R","E">>, <<"W","E","S","T">>, <<"W","H","A","T">>, <<"W","H","E","N">>,
  <<"W","H","O","M">>, <<"W","I","D","E">>, <<"W","I","F","E">>, <<"W","I","L","D">>,
  <<"W","I","L","L">>, <<"W","I","N","D">>, <<"W","I","N","E">>, <<"W","I","N","G">>,
  <<"W","I","R","E">>, <<"W","I","S","E">>, <<"W","I","S","H">>, <<"W","I","T","H">>,
  <<"W","O","K","E">>, <<"W","O","L","F">>, <<"W","O","M","B">>, <<"W","O","O","D">>,
  <<"W","O","O","L">>, <<"W","O","R","D">>, <<"W","O","R","E">>, <<"W","O","R","K">>,
  <<"W","O","R","M">>, <<"W","O","R","N">>, <<"W","O","R","L","D">>, <<"W","O","U","L","D">>,
  <<"W","R","I","T","E">>, <<"W","R","O","N","G">>, <<"A","B","O","U","T">>,
  <<"A","B","O","V","E">>, <<"A","F","T","E","R">>, <<"A","G","A","I","N">>,
  <<"B","E","I","N","G">>, <<"B","E","L","O","W">>, <<"B","L","A","C","K">>,
  <<"B","O","A","R","D">>, <<"B","R","A","I","N">>, <<"B","R","E","A","D">>,
  <<"B","R","E","A","K">>, <<"B","R","I","N","G">>, <<"B","R","O","A","D">>,
  <<"B","R","O","W","N">>, <<"B","U","I","L","D">>, <<"C","A","R","R","Y">>,
  <<"C","A","T","C","H">>, <<"C","A","U","S","E">>, <<"C","H","A","I","N">>,
  <<"C","H","A","I","R">>, <<"C","H","E","A","P">>, <<"C","H","E","C","K">>,
  <<"C","H","I","E","F">>, <<"C","H","I","L","D">>, <<"C","H","I","N","A">>,
  <<"C","L","A","I","M">>, <<"C","L","A","S","S">>, <<"C","L","E","A","N">>,
  <<"C","L","E","A","R">>, <<"C","L","I","M","B">>, <<"C","L","O","C","K">>,
  <<"C","L","O","S","E">>, <<"C","L","O","U","D">>, <<"C","O","A","C","H">>,
  <<"C","O","A","S","T">>, <<"C","O","L","O","R">>, <<"C","O","M","E","S">>,
  <<"C","O","U","L","D">>, <<"C","O","U","N","T">>, <<"C","O","U","R","T">>,
  <<"C","O","V","E","R">>, <<"C","R","A","F","T">>, <<"C","R","A","S","H">>,
  <<"C","R","A","Z","Y">>, <<"C","R","E","A","M">>, <<"C","R","I","M","E">>,
  <<"C","R","O","S","S">>, <<"C","R","O","W","D">>, <<"C","R","O","W","N">>,
  <<"C","U","R","V","E">>, <<"C","Y","C","L","E">>, <<"D","A","N","C","E">>,
  <<"D","E","A","T","H">>, <<"D","E","P","T","H">>, <<"D","O","U","B","T">>,
  <<"D","R","A","F","T">>, <<"D","R","A","I","N">>, <<"D","R","A","M","A">>,
  <<"D","R","A","W","N">>, <<"D","R","E","A","M">>, <<"D","R","E","S","S">>,
  <<"D","R","I","E","D">>, <<"D","R","I","N","K">>, <<"D","R","I","V","E">>,
  <<"D","R","O","V","E">>, <<"D","Y","I","N","G">>, <<"E","A","G","E","R">>,
  <<"E","A","R","L","Y">>, <<"E","A","R","T","H">>, <<"E","I","G","H","T">>,
  <<"E","L","E","C","T">>, <<"E","L","I","T","E">>, <<"E","M","P","T","Y">>,
  <<"E","N","E","M","Y">>, <<"E","N","J","O","Y">>, <<"E","N","T","E","R">>,
  <<"E","N","T","R","Y">>, <<"E","Q","U","A","L">>, <<"E","R","R","O","R">>,
  <<"E","V","E","N","T">>, <<"E","V","E","R","Y">>, <<"E","X","A","C","T">>,
  <<"E","X","T","R","A">>, <<"F","A","I","T","H">>, <<"F","A","L","S","E">>,
  <<"F","A","U","L","T">>, <<"F","E","A","S","T">>, <<"F","E","N","C","E">>,
  <<"F","E","W","E","R">>, <<"F","I","B","E","R">>, <<"F","I","E","L","D">>,
  <<"F","I","F","T","H">>, <<"F","I","F","T","Y">>, <<"F","I","G","H","T">>,
  <<"F","I","N","A","L">>, <<"F","I","N","D","S">>, <<"F","I","R","S","T">>,
  <<"F","I","X","E","D">>, <<"F","L","A","M","E">>, <<"F","L","A","S","H">>,
  <<"F","L","E","E","T">>, <<"F","L","E","S","H">>, <<"F","L","I","E","S">>,
  <<"F","L","O","A","T">>, <<"F","L","O","O","D">>, <<"F","L","O","O","R">>,
  <<"F","L","O","U","R">>, <<"F","L","U","I","D">>, <<"F","L","U","S","H">>,
  <<"F","O","C","U","S">>, <<"F","O","R","C","E">>, <<"F","O","R","T","H">>,
  <<"F","O","U","N","D">>, <<"F","R","A","M","E">>, <<"F","R","A","N","K">>,
  <<"F","R","A","U","D">>, <<"F","R","E","S","H">>, <<"F","R","O","N","T">>,
  <<"F","R","O","S","T">>, <<"F","R","U","I","T">>, <<"F","U","L","L","Y">>,
  <<"F","U","N","N","Y">>
  }


\* Every board, loop bound and coordinate check uses the literal 15;
\* a rack is topped up to the literal 7.
BOARD_SIZE == 15
RACK_SIZE == 7
BINGO_BONUS == 50
MAX_PASSES == 4
EXCHANGE_MIN_BAG == 7
\* setInterval(cleanupOldRooms, 60000), the age at which a room is swept
\* and the delay of the deletion a close handler schedules, in milliseconds
SWEEP_INTERVAL == 60000
ROOM_MAX_AGE == 3600000
GRACE_PERIOD == 300000

Coord == (0 .. BOARD_SIZE - 1) \X (0 .. BOARD_SIZE - 1)

\* cell.tile === null
NoTile == [id |-> -1, letter |-> "", value |-> 0, isBlank |-> FALSE]

TW ==
  {<<0,0>>,<<0,7>>,<<0,14>>,<<7,0>>,<<7,14>>,<<14,0>>,<<14,7>>,<<14,14>>}
DW ==
  {<<1,1>>,<<2,2>>,<<3,3>>,<<4,4>>,<<10,10>>,<<11,11>>,<<12,12>>,<<13,13>>,
   <<1,13>>,<<2,12>>,<<3,11>>,<<4,10>>,<<10,4>>,<<11,3>>,<<12,2>>,<<13,1>>}
TL ==
  {<<1,5>>,<<1,9>>,<<5,1>>,<<5,5>>,<<5,9>>,<<5,13>>,
   <<9,1>>,<<9,5>>,<<9,9>>,<<9,13>>,<<13,5>>,<<13,9>>}
DL ==
  {<<0,3>>,<<0,11>>,<<2,6>>,<<2,8>>,<<3,0>>,<<3,7>>,<<3,14>>,
   <<6,2>>,<<6,6>>,<<6,8>>,<<6,12>>,<<7,3>>,<<7,11>>,
   <<8,2>>,<<8,6>>,<<8,8>>,<<8,12>>,
   <<11,0>>,<<11,7>>,<<11,14>>,<<12,6>>,<<12,8>>,<<14,3>>,<<14,11>>}

\* initPremiumMap assigns TW, DW, TL, DL and then the center, so a later
\* list wins; a key that was never assigned reads as "none".
PREMIUM_MAP ==
  [p \in Coord |->
     IF p = <<7, 7>> THEN "CENTER"
     ELSE IF p \in DL THEN "DL"
     ELSE IF p \in TL THEN "TL"
     ELSE IF p \in DW THEN "DW"
     ELSE IF p \in TW THEN "TW"
     ELSE "none"]

\* A board is kept as the map from its occupied cells to their tiles; every
\* other cell of the 15 x 15 grid holds tile: null.
createEmptyBoard == << >>

\* board[row][col].tile
TileAt(board, p) == IF p \in DOMAIN board THEN board[p] ELSE NoTile

\* String.prototype.toUpperCase, letter by letter
UpperOf ==
  [a |-> "A", b |-> "B", c |-> "C", d |-> "D", e |-> "E", f |-> "F", g |-> "G", h |-> "H", i |-> "I", j |-> "J", k |-> "K", l |-> "L", m |-> "M",
   n |-> "N", o |-> "O", p |-> "P", q |-> "Q", r |-> "R", s |-> "S", t |-> "T", u |-> "U", v |-> "V", w |-> "W", x |-> "X", y |-> "Y", z |-> "Z"]

toUpperCase(word) ==
  [i \in 1 .. Len(word) |->
     IF word[i] \in DOMAIN UpperOf THEN UpperOf[word[i]] ELSE word[i]]

isValidWord(word) == toUpperCase(word) \in COMMON_WORDS

\* a deduction that counts the tiles instead of adding their values
SumValues_countsTiles(rack) == Len(rack)

RECURSIVE SumValues(_)
\* rack.reduce((s, t) => s + t.value, 0)
SumValues(rack) ==
  IF rack = <<>> THEN 0 ELSE Head(rack).value + SumValues(Tail(rack))

Min(a, b) == IF a < b THEN a ELSE b
Max(a, b) == IF a > b THEN a ELSE b

\* arr.filter(pred) for a predicate given as the set of indices it keeps
RECURSIVE FilterIdx(_, _, _)
FilterIdx(seq, keep, i) ==
  IF i > Len(seq) THEN <<>>
  ELSE (IF i \in keep THEN <<seq[i]>> ELSE <<>>) \o FilterIdx(seq, keep, i + 1)

(***************************************************************************)
(* The tile bag                                                            *)
(***************************************************************************)

RECURSIVE TableTiles(_, _)
\* The nested loops of createTileBag before the shuffle: for each table
\* entry, count tiles with fresh ids (idc is tileIdCounter on entry).
TableTiles(i, idc) ==
  IF i > Len(TILE_DISTRIBUTION) THEN <<>>
  ELSE LET d == TILE_DISTRIBUTION[i]
       IN [k \in 1 .. d.count |->
             [id |-> idc + k,
              letter |-> IF d.letter = "?" THEN "" ELSE d.letter,
              value |-> d.value,
              isBlank |-> d.letter = "?"]]
          \o TableTiles(i + 1, idc + d.count)

RemoveAt(seq, i) == SubSeq(seq, 1, i - 1) \o SubSeq(seq, i + 1, Len(seq))

\* a swap of the shuffle that copies tiles[j] to tiles[i] and drops tiles[i]
Swap_overwrite(arr, i, j) == [arr EXCEPT ![i] = arr[j]]

\* [arr[i], arr[j]] = [arr[j], arr[i]], the positions counted from 1
Swap(arr, i, j) == [arr EXCEPT ![i] = arr[j], ![j] = arr[i]]

RECURSIVE FisherYates(_, _, _, _)
\* for (i = length - 1; i > 0; i--) { j = floor(random() * (i + 1)); swap }
\* with draw[i] standing for the j drawn at i: the array after the
\* iterations i = hi, hi - 1, ..., lo of the loop.  The upper half of the
\* iterations runs first, and the lower half starts from the array it
\* leaves (the one element of the inner set).
FisherYates(arr, draw, hi, lo) ==
  IF hi < lo THEN arr
  ELSE IF hi = lo THEN Swap(arr, lo + 1, draw[lo] + 1)
  ELSE LET mid == (lo + hi) \div 2
       IN CHOOSE out \in {FisherYates(upper, draw, mid, lo) :
                            upper \in {FisherYates(arr, draw, hi, mid + 1)}} : TRUE

\* shuffleArray of the engine, and the loop at the end of the server's
\* createTileBag
shuffleArray(arr, draw) == FisherYates(arr, draw, Len(arr) - 1, 1)

RECURSIVE DealFront(_, _)
\* One outcome of the Fisher-Yates shuffle: the permutation that brings,
\* for each letter of `front` in turn, the first unused tile of that
\* letter to the front and leaves the others in table order.
DealFront(tiles, front) ==
  IF front = <<>> THEN tiles
  ELSE LET i == CHOOSE i \in 1 .. Len(tiles) :
                  /\ tiles[i].letter = Head(front)
                  /\ \A j \in 1 .. i - 1 : tiles[j].letter # Head(front)
       IN <<tiles[i]>> \o DealFront(RemoveAt(tiles, i), Tail(front))

createTileBag(idc, front) == DealFront(TableTiles(1, idc), front)

\* the draw taken from the end of the bag
drawTiles_fromEnd(bag, count) ==
  LET n == Min(count, Len(bag))
  IN [drawn |-> SubSeq(bag, Len(bag) - n + 1, Len(bag)),
      remaining |-> SubSeq(bag, 1, Len(bag) - n)]

drawTiles(bag, count) ==
  LET n == Min(count, Len(bag))
  IN [drawn |-> SubSeq(bag, 1, n), remaining |-> SubSeq(bag, n + 1, Len(bag))]


(***************************************************************************)
(* Placement validation, word formation and scoring (server)               *)
(***************************************************************************)

Range(f) == {f[i] : i \in DOMAIN f}

Invalid(msg) == [valid |-> FALSE, error |-> msg]
Valid == [valid |-> TRUE, error |-> ""]

OutOfBounds(t) ==
  t.row < 0 \/ t.row > 14 \/ t.col < 0 \/ t.col > 14

\* nr >= 0 && nr < 15 && nc >= 0 && nc < 15 && board[nr][nc].tile !== null
OccupiedAt(board, nr, nc) ==
  /\ nr >= 0 /\ nr < BOARD_SIZE /\ nc >= 0 /\ nc < BOARD_SIZE
  /\ TileAt(board, <<nr, nc>>) # NoTile

\* the neighbours taken to include the diagonal ones
TouchesExisting_diagonal(board, placedTiles) ==
  \E i \in 1 .. Len(placedTiles) :
    \E dr \in {-1, 0, 1}, dc \in {-1, 0, 1} :
      /\ <<dr, dc>> # <<0, 0>>
      /\ OccupiedAt(board, placedTiles[i].row + dr, placedTiles[i].col + dc)

TouchesExisting(board, placedTiles) ==
  \E i \in 1 .. Len(placedTiles) :
    LET t == placedTiles[i]
    IN \/ OccupiedAt(board, t.row - 1, t.col)
       \/ OccupiedAt(board, t.row + 1, t.col)
       \/ OccupiedAt(board, t.row, t.col - 1)
       \/ OccupiedAt(board, t.row, t.col + 1)

SetMin(S) == CHOOSE x \in S : \A y \in S : x <= y
SetMax(S) == CHOOSE x \in S : \A y \in S : x >= y

\* a gap test that looks at the placed tiles only
GapInRow_placedOnly(board, row, cols) ==
  \E c \in SetMin(cols) .. SetMax(cols) : c \notin cols

\* the loop over the columns from the least to the greatest placed one
GapInRow(board, row, cols) ==
  \E c \in SetMin(cols) .. SetMax(cols) :
    c \notin cols /\ TileAt(board, <<row, c>>) = NoTile

\* the loop over the rows from the least to the greatest placed one
GapInCol(board, col, rows) ==
  \E r \in SetMin(rows) .. SetMax(rows) :
    r \notin rows /\ TileAt(board, <<r, col>>) = NoTile

\* validatePlacement with the centre test of the first move ahead of the
\* bounds and occupancy loop
validatePlacement_centerFirst(board, placedTiles, isFirstMove) ==
  IF Len(placedTiles) = 0 THEN Invalid("No tiles placed")
  ELSE
    LET n == Len(placedTiles)
        sameRow == \A i \in 1 .. n : placedTiles[i].row = placedTiles[1].row
        sameCol == \A i \in 1 .. n : placedTiles[i].col = placedTiles[1].col
        \* the tiles at which the bounds / occupancy loop returns
        Bad == {i \in 1 .. n :
                  \/ OutOfBounds(placedTiles[i])
                  \/ TileAt(board, <<placedTiles[i].row, placedTiles[i].col>>) # NoTile}
        cols == {placedTiles[i].col : i \in 1 .. n}
        rows == {placedTiles[i].row : i \in 1 .. n}
    IN
    IF ~sameRow /\ ~sameCol
      THEN Invalid("Tiles must be in a single row or column")
    ELSE IF isFirstMove
            /\ ~(\E i \in 1 .. n : placedTiles[i].row = 7 /\ placedTiles[i].col = 7)
      THEN Invalid("First word must cover center")
    ELSE IF Bad # {}
      THEN (IF OutOfBounds(placedTiles[SetMin(Bad)])
              THEN Invalid("Tile out of bounds")
              ELSE Invalid("Cell already occupied"))
    ELSE IF isFirstMove /\ n < 2
      THEN Invalid("First word must be at least 2 letters")
    ELSE IF ~isFirstMove /\ ~TouchesExisting(board, placedTiles)
      THEN Invalid("Word must connect to existing tiles")
    ELSE IF sameRow
      THEN (IF GapInRow(board, placedTiles[1].row, cols)
              THEN Invalid("Gaps in placement")
              ELSE Valid)
    ELSE (IF GapInCol(board, placedTiles[1].col, rows)
            THEN Invalid("Gaps in placement")
            ELSE Valid)

validatePlacement(board, placedTiles, isFirstMove) ==
  IF Len(placedTiles) = 0 THEN Invalid("No tiles placed")
  ELSE
    LET n == Len(placedTiles)
        sameRow == \A i \in 1 .. n : placedTiles[i].row = placedTiles[1].row
        sameCol == \A i \in 1 .. n : placedTiles[i].col = placedTiles[1].col
        \* the tiles at which the bounds / occupancy loop returns
        Bad == {i \in 1 .. n :
                  \/ OutOfBounds(placedTiles[i])
                  \/ TileAt(board, <<placedTiles[i].row, placedTiles[i].col>>) # NoTile}
        cols == {placedTiles[i].col : i \in 1 .. n}
        rows == {placedTiles[i].row : i \in 1 .. n}
    IN
    IF ~sameRow /\ ~sameCol
      THEN Invalid("Tiles must be in a single row or column")
    ELSE IF Bad # {}
      THEN (IF OutOfBounds(placedTiles[SetMin(Bad)])
              THEN Invalid("Tile out of bounds")
              ELSE Invalid("Cell already occupied"))
    ELSE IF isFirstMove
            /\ ~(\E i \in 1 .. n : placedTiles[i].row = 7 /\ placedTiles[i].col = 7)
      THEN Invalid("First word must cover center")
    ELSE IF isFirstMove /\ n < 2
      THEN Invalid("First word must be at least 2 letters")
    ELSE IF ~isFirstMove /\ ~TouchesExisting(board, placedTiles)
      THEN Invalid("Word must connect to existing tiles")
    ELSE IF sameRow
      THEN (IF GapInRow(board, placedTiles[1].row, cols)
              THEN Invalid("Gaps in placement")
              ELSE Valid)
    ELSE (IF GapInCol(board, placedTiles[1].col, rows)
            THEN Invalid("Gaps in placement")
            ELSE Valid)

\* The tile object a placed tile leaves in a board cell.
CellTile(t) ==
  [id |-> t.id, letter |-> t.letter, value |-> t.value, isBlank |-> t.isBlank]

\* for (const t of placedTiles) b[t.row][t.col] = {...cell, tile: t}:
\* a later tile of the list overwrites an earlier one on the same cell.
ApplyTiles(board, placedTiles) ==
  LET Placed == {<<placedTiles[i].row, placedTiles[i].col>> :
                   i \in 1 .. Len(placedTiles)}
  IN [p \in DOMAIN board \cup Placed |->
        LET At == {i \in 1 .. Len(placedTiles) :
                     <<placedTiles[i].row, placedTiles[i].col>> = p}
        IN IF At = {} THEN board[p] ELSE CellTile(placedTiles[SetMax(At)])]

RECURSIVE WordStart(_, _, _, _)
\* first loop of getWordAt: step back while the previous cell holds a tile
WordStart(tempBoard, r, c, horizontal) ==
  IF (IF horizontal THEN c ELSE r) > 0
    THEN LET nr == IF horizontal THEN r ELSE r - 1
             nc == IF horizontal THEN c - 1 ELSE c
         IN IF TileAt(tempBoard, <<nr, nc>>) # NoTile
              THEN WordStart(tempBoard, nr, nc, horizontal)
              ELSE <<r, c>>
    ELSE <<r, c>>

RECURSIVE WordTiles(_, _, _, _, _)
\* second loop of getWordAt: collect the run of tiles from the start
WordTiles(tempBoard, placedSet, r, c, horizontal) ==
  IF (IF horizontal THEN c ELSE r) < BOARD_SIZE /\ TileAt(tempBoard, <<r, c>>) # NoTile
    THEN LET tile == TileAt(tempBoard, <<r, c>>)
             l == IF tile.letter = "" THEN "?" ELSE tile.letter
         IN <<[row |-> r, col |-> c, letter |-> l, value |-> tile.value,
               isNew |-> <<r, c>> \in placedSet]>>
            \o WordTiles(tempBoard, placedSet,
                         IF horizontal THEN r ELSE r + 1,
                         IF horizontal THEN c + 1 ELSE c, horizontal)
    ELSE <<>>

\* getWordAt: the words it pushes (none when the run is shorter than 2)
getWordAt(tempBoard, placedSet, startRow, startCol, horizontal) ==
  LET s == WordStart(tempBoard, startRow, startCol, horizontal)
      tiles == WordTiles(tempBoard, placedSet, s[1], s[2], horizontal)
  IN IF Len(tiles) >= 2
       THEN <<[word |-> [i \in 1 .. Len(tiles) |-> tiles[i].letter],
               tiles |-> tiles]>>
       ELSE <<>>

WordKey(w) ==
  <<w.tiles[1].row, w.tiles[1].col,
    w.tiles[Len(w.tiles)].row, w.tiles[Len(w.tiles)].col>>

RECURSIVE UniqueWords(_, _)
\* the Map keyed by start and end cell keeps the first word of each key
UniqueWords(words, seen) ==
  IF words = <<>> THEN <<>>
  ELSE IF WordKey(Head(words)) \in seen
    THEN UniqueWords(Tail(words), seen)
    ELSE <<Head(words)>>
         \o UniqueWords(Tail(words), seen \cup {WordKey(Head(words))})

RECURSIVE CrossWords(_, _, _, _, _)
\* the loop over placedTiles in getFormedWords
CrossWords(tempBoard, placedSet, placedTiles, sameRow, i) ==
  IF i > Len(placedTiles) THEN <<>>
  ELSE LET t == placedTiles[i]
           one == Len(placedTiles) = 1
       IN (IF sameRow \/ one
             THEN getWordAt(tempBoard, placedSet, t.row, t.col, FALSE)
             ELSE <<>>)
          \o (IF ~sameRow \/ one
                THEN getWordAt(tempBoard, placedSet, t.row, t.col, TRUE)
                ELSE <<>>)
          \o CrossWords(tempBoard, placedSet, placedTiles, sameRow, i + 1)

getFormedWords(board, placedTiles) ==
  LET tempBoard == ApplyTiles(board, placedTiles)
      n == Len(placedTiles)
      placedSet == {<<placedTiles[i].row, placedTiles[i].col>> : i \in 1 .. n}
      sameRow == \A i \in 1 .. n : placedTiles[i].row = placedTiles[1].row
      one == n = 1
      words ==
        (IF sameRow \/ one
           THEN getWordAt(tempBoard, placedSet,
                          placedTiles[1].row, placedTiles[1].col, TRUE)
           ELSE <<>>)
        \o (IF ~sameRow \/ one
              THEN getWordAt(tempBoard, placedSet,
                             placedTiles[1].row, placedTiles[1].col, FALSE)
              ELSE <<>>)
        \o CrossWords(tempBoard, placedSet, placedTiles, sameRow, 1)
  IN UniqueWords(words, {})

RECURSIVE WordScore_everyTile(_, _, _, _)
\* the loop with the premium of every tile of the word, new or not
WordScore_everyTile(tiles, i, wordScore, wordMult) ==
  IF i > Len(tiles) THEN wordScore * wordMult
  ELSE LET t == tiles[i]
           p == PREMIUM_MAP[<<t.row, t.col>>]
           ls == IF p = "DL" THEN t.value * 2
                 ELSE IF p = "TL" THEN t.value * 3
                 ELSE t.value
           wm == IF p = "DW" \/ p = "CENTER" THEN wordMult * 2
                 ELSE IF p = "TW" THEN wordMult * 3
                 ELSE wordMult
       IN WordScore_everyTile(tiles, i + 1, wordScore + ls, wm)

RECURSIVE WordScore(_, _, _, _)
\* inner loop of calculateScore over one word's tiles
WordScore(tiles, i, wordScore, wordMult) ==
  IF i > Len(tiles) THEN wordScore * wordMult
  ELSE LET t == tiles[i]
           p == PREMIUM_MAP[<<t.row, t.col>>]
           ls == IF t.isNew /\ p = "DL" THEN t.value * 2
                 ELSE IF t.isNew /\ p = "TL" THEN t.value * 3
                 ELSE t.value
           wm == IF t.isNew /\ (p = "DW" \/ p = "CENTER") THEN wordMult * 2
                 ELSE IF t.isNew /\ p = "TW" THEN wordMult * 3
                 ELSE wordMult
       IN WordScore(tiles, i + 1, wordScore + ls, wm)

RECURSIVE SumWordScores(_, _)
SumWordScores(formedWords, i) ==
  IF i > Len(formedWords) THEN 0
  ELSE WordScore(formedWords[i].tiles, 1, 0, 1)
       + SumWordScores(formedWords, i + 1)

\* the bonus from six tiles on in place of exactly seven
calculateScore_sixBonus(board, placedTiles) ==
  SumWordScores(getFormedWords(board, placedTiles), 1)
  + (IF Len(placedTiles) >= 6 THEN BINGO_BONUS ELSE 0)

calculateScore(board, placedTiles) ==
  SumWordScores(getFormedWords(board, placedTiles), 1)
  + (IF Len(placedTiles) = 7 THEN BINGO_BONUS ELSE 0)


(***************************************************************************)
(* Bounds of the model                                                     *)
(***************************************************************************)

\* A game is dealt from the first tiles of the shuffled bag: 8 (the second
\* player gets one tile and the bag is empty) or 21 (two full racks and a
\* bag of 7); the program deals from all 100.
DeckSizes == {8, 21}
\* Shuffle outcomes: the letters the shuffle brings to the front.
Fronts ==
  {<<"A","T","E","D","O","N","E", "E","A","R","E","S","I","N", "A","T","E">>}

\* A place_tiles message carries PlacedSizes tiles, naming tiles at the
\* positions PickIndexes of the sender's rack, on the cells of Cells.
PlacedSizes == {0, 1, 2}
PickIndexes == {1, 2}
Cells == {<<7, 7>>, <<7, 8>>, <<7, 9>>, <<8, 7>>}
\* What a client does to the entries of its message: copy the rack tiles,
\* claim another letter and value for them, or name a tile it does not hold.
Modes == {"honest", "forged", "foreign"}
Foreign == [id |-> 0]
Forged == [letter |-> "A", value |-> 9]
\* An exchange_tiles message names tiles at the positions SwapIndexes of
\* the sender's rack and possibly a foreign id; the reshuffle that follows
\* rotates the bag by one of Reshuffles.
SwapIndexes == {1}
Reshuffles == {0, 1}
\* Spec handles turn actions while the history holds fewer than MaxMoves
\* records; SpecLong goes to MaxLongMoves records with at most MaxLongPlays
\* plays and MaxLongSwaps exchanges, its clients sending honest messages.
MaxMoves == 2
MaxLongMoves == 5
MaxLongPlays == 2
MaxLongSwaps == 1
\* SpecLife follows connections that close and come back for MaxLifeTicks
\* sweep periods, its rooms dealt LifeDecks tiles and their history kept
\* below MaxLifeMoves records; SpecSweep lets rooms age for MaxSweepTicks
\* periods, creating at most MaxSweepRooms of them, at one of EarlyTimes
\* or after the first hour.
MaxLifeTicks == 5
MaxLifeMoves == 1
LifeDecks == {8}
RawTexts == {"not json", "null", "{}"}
Malformations == {"null", "no cell"}
MaxSweepTicks == 62
MaxSweepMoves == 1
MaxSweepRooms == 2
EarlyTimes == {0, SWEEP_INTERVAL, 2 * SWEEP_INTERVAL}

Conns == {"c1", "c2"}
\* the sockets the server accepts: those of the two players and a later one
Sockets == Conns \cup {"c3"}
Codes == {"ABCDEF"}
UnknownCode == "ZZZZZZ"
\* the name each connection sends ("" stands for a message without name)
NameOf ==
  [c \in Sockets |-> IF c = "c1" THEN "Ann" ELSE IF c = "c3" THEN "Cy" ELSE ""]
Null == "null"

(***************************************************************************)
(* State: the server's rooms and connections, the application's hooks      *)
(***************************************************************************)

VARIABLES
  rooms,          \* the room table: code -> GameRoom
  conn,           \* per connection: playerId, currentRoomCode, open socket
  tileIdCounter,  \* the counter genTileId increments
  sent,           \* messages the last handler sent, in order: ws, data
  threw,          \* the last handler ended by an uncaught exception
  handled,        \* the message the last handler ran for: type, ws
  dealt,          \* code -> number of tiles the room's game was dealt from
  now,            \* Date.now(), in milliseconds since the server started
  graceTimers,    \* the setTimeout callbacks of close handlers not yet run
  nextSweep       \* when setInterval runs cleanupOldRooms next

clockVars == <<now, graceTimers, nextSweep>>

roomVars ==
  <<rooms, conn, tileIdCounter, sent, threw, handled, dealt, clockVars>>

VARIABLES
  gameState,            \* useState<GameState | null>
  pendingTiles,         \* useState<PlacedTile[]>
  selectedTileId,       \* useState<string | null>
  difficulty,           \* useState<'easy' | 'medium' | 'hard'>
  timers,               \* the setTimeout callbacks of doAiTurn not yet run
  engineTileIdCounter,  \* tileIdCounter of the engine
  soloDealt             \* the number of tiles the current game was dealt

soloVars ==
  <<gameState, pendingTiles, selectedTileId, difficulty, timers,
    engineTileIdCounter, soloDealt>>

\* gameState === null
NoGame == [none |-> TRUE]
\* selectedTileId === null
NoSelection == -1

SoloInit ==
  /\ gameState = NoGame
  /\ pendingTiles = <<>>
  /\ selectedTileId = NoSelection
  /\ difficulty = "medium"
  /\ timers = <<>>
  /\ engineTileIdCounter = 0
  /\ soloDealt = 0

VARIABLES
  placement,  \* the arguments of a call of validatePlacement
  verdict     \* what the call returned

callVars == <<placement, verdict>>

\* no call of validatePlacement made on its own
NoCall == [none |-> TRUE]

CallInit == placement = NoCall /\ verdict = NoCall

vars == <<roomVars, soloVars, callVars>>

(***************************************************************************)
(* The room coordinator                                                    *)
(***************************************************************************)

\* players.findIndex(p => p.id === id), 0-based, -1 when absent
findIndex(players, id) ==
  IF \E i \in 1 .. Len(players) : players[i].id = id
    THEN SetMin({i \in 1 .. Len(players) : players[i].id = id}) - 1
    ELSE -1

\* players.find(p => p.id !== id) as a 0-based index, -1 when undefined
findOtherIndex(players, id) ==
  IF \E i \in 1 .. Len(players) : players[i].id # id
    THEN SetMin({i \in 1 .. Len(players) : players[i].id # id}) - 1
    ELSE -1

\* sendToPlayer that writes to every socket instead of the player's own
sendToPlayer_everySocket(player, data) ==
  <<[ws |-> "c1", data |-> data], [ws |-> "c2", data |-> data]>>

\* sendToPlayer: the message goes out only on an open socket
sendToPlayer(player, data) ==
  IF conn[player.ws].open THEN <<[ws |-> player.ws, data |-> data]>> ELSE <<>>

RECURSIVE broadcastFrom(_, _, _)
broadcastFrom(players, data, i) ==
  IF i > Len(players) THEN <<>>
  ELSE sendToPlayer(players[i], data) \o broadcastFrom(players, data, i + 1)

broadcastRoom(room, data) == broadcastFrom(room.players, data, 1)

\* The public board, kept like a board: occupied cells only.
getPublicBoard(board) ==
  [p \in DOMAIN board |-> [letter |-> board[p].letter, value |-> board[p].value]]

\* the count field filled with the rack itself (.length forgotten)
opponentRackCount_wholeRack(room, oi) ==
  IF oi = -1 THEN 0 ELSE room.players[oi + 1].rack

\* opponent?.rack.length || 0
opponentRackCount(room, oi) ==
  IF oi = -1 THEN 0 ELSE Len(room.players[oi + 1].rack)

getRoomState(room, forPlayerId) ==
  LET pi == findIndex(room.players, forPlayerId)
      oi == findOtherIndex(room.players, forPlayerId)
  IN [type |-> "game_state",
      code |-> room.code,
      board |-> getPublicBoard(room.board),
      yourRack |-> IF pi = -1 THEN <<>> ELSE room.players[pi + 1].rack,
      yourScore |-> IF pi = -1 THEN 0 ELSE room.players[pi + 1].score,
      opponentScore |-> IF oi = -1 THEN 0 ELSE room.players[oi + 1].score,
      opponentName |-> IF oi = -1 \/ room.players[oi + 1].name = ""
                         THEN "Waiting..." ELSE room.players[oi + 1].name,
      opponentRackCount |-> opponentRackCount(room, oi),
      isYourTurn |-> /\ room.started
                     /\ room.currentTurnIndex + 1 \in DOMAIN room.players
                     /\ room.players[room.currentTurnIndex + 1].id = forPlayerId,
      isFirstMove |-> room.isFirstMove,
      tilesLeft |-> Len(room.tileBag),
      gameOver |-> room.gameOver,
      winner |-> room.winner,
      moveHistory |-> room.moveHistory,
      started |-> room.started,
      playerCount |-> Len(room.players),
      yourName |-> IF pi = -1 THEN "" ELSE room.players[pi + 1].name]

RECURSIVE statesFrom(_, _)
\* for (const p of room.players) sendToPlayer(p, getRoomState(room, p.id))
statesFrom(room, i) ==
  IF i > Len(room.players) THEN <<>>
  ELSE sendToPlayer(room.players[i], getRoomState(room, room.players[i].id))
       \o statesFrom(room, i + 1)

sendStates(room) == statesFrom(room, 1)

RoomInit ==
  /\ rooms = << >>
  /\ conn = [c \in Sockets |->
               [playerId |-> 0, currentRoomCode |-> "", open |-> TRUE]]
  /\ tileIdCounter = 0
  /\ sent = <<>>
  /\ threw = FALSE
  /\ handled = [type |-> "", ws |-> ""]
  /\ dealt = << >>
  /\ now = 0
  /\ graceTimers = <<>>
  /\ nextSweep = SWEEP_INTERVAL

\* case "create_room"
CreateRoom(c, name, deck, front) ==
  /\ conn[c].open
  /\ handled' = [type |-> "create_room", ws |-> c]
  /\ \E code \in Codes \ DOMAIN rooms :
       LET playerId == tileIdCounter + 1
           playerName == IF name = "" THEN "Player 1" ELSE name
           tileBag == SubSeq(createTileBag(tileIdCounter + 1, front), 1, deck)
           d == drawTiles(tileBag, RACK_SIZE)
           room == [code |-> code,
                    players |-> <<[ws |-> c, id |-> playerId, name |-> playerName,
                                   rack |-> d.drawn, score |-> 0,
                                   connected |-> TRUE]>>,
                    board |-> createEmptyBoard,
                    tileBag |-> d.remaining,
                    currentTurnIndex |-> 0,
                    isFirstMove |-> TRUE,
                    consecutivePasses |-> 0,
                    gameOver |-> FALSE,
                    winner |-> Null,
                    moveHistory |-> <<>>,
                    createdAt |-> now,
                    started |-> FALSE]
       IN /\ rooms' = (code :> room) @@ rooms
          /\ dealt' = (code :> deck) @@ dealt
          /\ conn' = [conn EXCEPT ![c].playerId = playerId,
                                  ![c].currentRoomCode = code]
          /\ tileIdCounter' = tileIdCounter + 1 + Len(TableTiles(1, 0))
          /\ sent' = sendToPlayer(room.players[1],
                                  [type |-> "room_created", code |-> code,
                                   playerId |-> playerId])
                     \o sendToPlayer(room.players[1], getRoomState(room, playerId))
          /\ threw' = FALSE
          /\ UNCHANGED clockVars


\* every slot taken for a disconnected one
Disconnected_anySlot(room) == 1 .. Len(room.players)

\* the slots room.players.find(p => !p.connected) chooses the first of
Disconnected(room) ==
  {i \in 1 .. Len(room.players) : ~room.players[i].connected}

\* a reconnect that deals the slot a new, empty rack
Reconnected_emptyRack(room, i, c) ==
  [room EXCEPT !.players[i].ws = c, !.players[i].connected = TRUE,
               !.players[i].rack = <<>>]

\* disconnected.ws = ws; disconnected.connected = true
Reconnected(room, i, c) ==
  [room EXCEPT !.players[i].ws = c, !.players[i].connected = TRUE]

\* case "join_room"
JoinRoom(c, code, name) ==
  /\ conn[c].open
  /\ handled' = [type |-> "join_room", ws |-> c, code |-> code]
  /\ threw' = FALSE
  /\ UNCHANGED clockVars
  /\ IF code \notin DOMAIN rooms
       THEN /\ sent' = <<[ws |-> c,
                          data |-> [type |-> "error", message |-> "Room not found"]]>>
            /\ UNCHANGED <<rooms, conn, tileIdCounter, dealt>>
     ELSE LET room == rooms[code] IN
       IF Len(room.players) >= 2
         THEN LET Disc == Disconnected(room)
              IN IF Disc # {}
                   THEN LET i == SetMin(Disc)
                            playerId == room.players[i].id
                            newRoom == Reconnected(room, i, c)
                            oi == findOtherIndex(newRoom.players, playerId)
                        IN /\ rooms' = [rooms EXCEPT ![code] = newRoom]
                           /\ conn' = [conn EXCEPT ![c].playerId = playerId,
                                                   ![c].currentRoomCode = code]
                           /\ sent' = sendToPlayer(newRoom.players[i],
                                        [type |-> "reconnected", playerId |-> playerId])
                                      \o sendToPlayer(newRoom.players[i],
                                                      getRoomState(newRoom, playerId))
                                      \o (IF oi # -1
                                            THEN sendToPlayer(newRoom.players[oi + 1],
                                                   getRoomState(newRoom, newRoom.players[oi + 1].id))
                                            ELSE <<>>)
                           /\ UNCHANGED <<tileIdCounter, dealt>>
                   ELSE /\ sent' = <<[ws |-> c,
                                      data |-> [type |-> "error", message |-> "Room is full"]]>>
                        /\ UNCHANGED <<rooms, conn, tileIdCounter, dealt>>
       ELSE LET playerId == tileIdCounter + 1
                playerName == IF name = "" THEN "Player 2" ELSE name
                d == drawTiles(room.tileBag, RACK_SIZE)
                newRoom == [room EXCEPT
                              !.tileBag = d.remaining,
                              !.players = Append(@, [ws |-> c, id |-> playerId,
                                                     name |-> playerName,
                                                     rack |-> d.drawn, score |-> 0,
                                                     connected |-> TRUE]),
                              !.started = TRUE]
            IN /\ rooms' = [rooms EXCEPT ![code] = newRoom]
               /\ conn' = [conn EXCEPT ![c].playerId = playerId,
                                       ![c].currentRoomCode = code]
               /\ tileIdCounter' = tileIdCounter + 1
               /\ sent' = sendToPlayer(newRoom.players[2],
                            [type |-> "room_joined", code |-> code,
                             playerId |-> playerId])
                          \o sendStates(newRoom)
                          \o broadcastRoom(newRoom, [type |-> "game_started"])
               /\ UNCHANGED dealt

\* What a handler leaves behind: the room, what it sent, whether it threw.
Outcome(room, msgs) == [room |-> room, sent |-> msgs, threw |-> FALSE]
Thrown(room, msgs) == [room |-> room, sent |-> msgs, threw |-> TRUE]

\* a rejection that still consumes the sender's turn
reject_consumesTurn(room, player, data) ==
  Outcome([room EXCEPT !.currentTurnIndex = (@ + 1) % 2], sendToPlayer(player, data))

\* sendToPlayer(player, data); return;
reject(room, player, data) == Outcome(room, sendToPlayer(player, data))

\* room.players[0].score > room.players[1].score ? ... : "Tie"
WinnerOf(a, b) ==
  IF a.score > b.score THEN a.name
  ELSE IF b.score > a.score THEN b.name
  ELSE "Tie"

\* player.rack.filter(t => !placedTiles.some(pt => pt.id === t.id))
RackWithout(rack, ids) ==
  FilterIdx(rack, {i \in 1 .. Len(rack) : rack[i].id \notin ids}, 1)

\* the end of case "place_tiles": the endgame test, the turn flip and the
\* two broadcasts
settlePlay(r1, pi, oi, mainWord, score) ==
  LET player == r1.players[pi]
      isGameOver == Len(r1.tileBag) = 0 /\ Len(player.rack) = 0
      deduction == SumValues(r1.players[oi].rack)
      r3 == [r1 EXCEPT !.gameOver = TRUE,
                       !.players[oi].score = @ - deduction,
                       !.players[pi].score = @ + deduction]
      r2 == IF isGameOver
              THEN [r3 EXCEPT !.winner =
                      IF r3.players[pi].score > r3.players[oi].score
                        THEN r3.players[pi].name
                      ELSE IF r3.players[oi].score > r3.players[pi].score
                        THEN r3.players[oi].name
                      ELSE "Tie"]
              ELSE r1
      r4 == [r2 EXCEPT !.currentTurnIndex = (@ + 1) % 2]
      msgs == broadcastRoom(r4, [type |-> "move_made", player |-> player.name,
                                 word |-> mainWord, score |-> score])
  IN Outcome(r4, msgs \o sendStates(r4))

\* case "place_tiles" once the words are valid: the tiles go to the board,
\* the rack is refilled, the score and the history are updated
commitPlay(room, pi, placedTiles, mainWord, score) ==
  LET player == room.players[pi]
      rack1 == RackWithout(player.rack,
                           {placedTiles[i].id : i \in 1 .. Len(placedTiles)})
      needed == RACK_SIZE - Len(rack1)
      d == drawTiles(room.tileBag, Max(0, needed))
      r1 == [room EXCEPT
               !.board = ApplyTiles(room.board, placedTiles),
               !.players[pi].rack = rack1 \o d.drawn,
               !.tileBag = d.remaining,
               !.players[pi].score = @ + score,
               !.isFirstMove = FALSE,
               !.consecutivePasses = 0,
               !.moveHistory = Append(@, [player |-> player.name, word |-> mainWord,
                                          score |-> score, type |-> "play"])]
  IN settlePlay(r1, pi, findOtherIndex(room.players, player.id) + 1,
                mainWord, score)

\* the dictionary check naming the last word that is not valid
placeWords_lastWord(room, pi, placedTiles, formedWords) ==
  LET InvalidIdx == {i \in 1 .. Len(formedWords) : ~isValidWord(formedWords[i].word)}
  IN
  IF InvalidIdx # {}
    THEN reject(room, room.players[pi],
                [type |-> "move_rejected", error |-> "is not a valid word",
                 word |-> formedWords[SetMax(InvalidIdx)].word])
    ELSE commitPlay(room, pi, placedTiles,
                    IF Len(formedWords) > 0 THEN formedWords[1].word ELSE <<>>,
                    calculateScore(room.board, placedTiles))

\* case "place_tiles" once the placement is valid: the dictionary check
placeWords(room, pi, placedTiles, formedWords) ==
  LET InvalidIdx == {i \in 1 .. Len(formedWords) : ~isValidWord(formedWords[i].word)}
  IN
  IF InvalidIdx # {}
    THEN reject(room, room.players[pi],
                [type |-> "move_rejected", error |-> "is not a valid word",
                 word |-> formedWords[SetMin(InvalidIdx)].word])
    ELSE commitPlay(room, pi, placedTiles,
                    IF Len(formedWords) > 0 THEN formedWords[1].word ELSE <<>>,
                    calculateScore(room.board, placedTiles))

\* An entry of msg.tiles that is the JSON value null, and whether an entry
\* carries row and col.
NullEntry == [null |-> TRUE]
HasCell(t) == "row" \in DOMAIN t /\ "col" \in DOMAIN t

\* case "place_tiles", from the turn check on (room started, game not over).
\* Of the entries without row and col the model sends only messages in
\* which no entry has them: every comparison of validatePlacement with
\* undefined is false, and board[undefined][undefined] throws.
placeTiles(room, playerId, placedTiles) ==
  LET playerIndex == findIndex(room.players, playerId) IN
  IF playerIndex # room.currentTurnIndex
    THEN (IF playerIndex = -1
            THEN Thrown(room, <<>>)
            ELSE reject(room, room.players[playerIndex + 1],
                        [type |-> "error", message |-> "Not your turn"]))
  ELSE
  LET pi == playerIndex + 1
      player == room.players[pi]
      rackIds == {player.rack[i].id : i \in 1 .. Len(player.rack)}
  IN
  IF Len(placedTiles) = 0
    THEN reject(room, player, [type |-> "error", message |-> "No tiles placed"])
  ELSE IF \E i \in 1 .. Len(placedTiles) :
            placedTiles[i] = NullEntry \/ placedTiles[i].id \notin rackIds
    THEN (IF placedTiles[SetMin({i \in 1 .. Len(placedTiles) :
                                   \/ placedTiles[i] = NullEntry
                                   \/ placedTiles[i].id \notin rackIds})]
               = NullEntry
            THEN \* pt.id of null
                 Thrown(room, <<>>)
            ELSE reject(room, player,
                        [type |-> "error", message |-> "Invalid tile"]))
  ELSE IF \A i \in 1 .. Len(placedTiles) : ~HasCell(placedTiles[i])
    THEN Thrown(room, <<>>)
  ELSE
  LET validation == validatePlacement(room.board, placedTiles, room.isFirstMove) IN
  IF ~validation.valid
    THEN reject(room, player, [type |-> "move_rejected",
                               error |-> validation.error, word |-> <<>>])
    ELSE placeWords(room, pi, placedTiles,
                    getFormedWords(room.board, placedTiles))

\* case "pass_turn", from the turn check on
\* a pass that is recorded and moves the turn but is not counted
passTurn_notCounted(room, playerId) ==
  LET playerIndex == findIndex(room.players, playerId) IN
  IF playerIndex # room.currentTurnIndex THEN Outcome(room, <<>>)
  ELSE
  LET r4 == [room EXCEPT
               !.moveHistory = Append(@, [player |-> room.players[playerIndex + 1].name,
                                          word |-> <<>>, score |-> 0,
                                          type |-> "pass"]),
               !.currentTurnIndex = (@ + 1) % 2]
  IN Outcome(r4, sendStates(r4))

passTurn(room, playerId) ==
  LET playerIndex == findIndex(room.players, playerId) IN
  IF playerIndex # room.currentTurnIndex THEN Outcome(room, <<>>)
  ELSE
  LET r1 == [room EXCEPT
               !.consecutivePasses = @ + 1,
               !.moveHistory = Append(@, [player |-> room.players[playerIndex + 1].name,
                                          word |-> <<>>, score |-> 0,
                                          type |-> "pass"])]
      r2 == IF r1.consecutivePasses >= MAX_PASSES
              THEN LET r3 == [r1 EXCEPT
                                !.gameOver = TRUE,
                                !.players = [i \in DOMAIN r1.players |->
                                   [r1.players[i] EXCEPT
                                      !.score = @ - SumValues(r1.players[i].rack)]]]
                   IN [r3 EXCEPT !.winner = WinnerOf(r3.players[1], r3.players[2])]
              ELSE r1
      r4 == [r2 EXCEPT !.currentTurnIndex = (@ + 1) % 2]
  IN Outcome(r4, sendStates(r4))

\* the Fisher-Yates loop over the bag of an exchange: one of the rotations
Reshuffle(bag, k) ==
  IF Len(bag) = 0 THEN bag
  ELSE LET r == k % Len(bag)
       IN SubSeq(bag, r + 1, Len(bag)) \o SubSeq(bag, 1, r)

\* case "exchange_tiles" with the exchanged tiles back in the bag before
\* the draw
exchangeTiles_rejoinFirst(room, playerId, tileIds, k) ==
  LET playerIndex == findIndex(room.players, playerId) IN
  IF Len(room.tileBag) < EXCHANGE_MIN_BAG
    THEN (IF playerIndex = -1
            THEN Thrown(room, <<>>)
            ELSE reject(room, room.players[playerIndex + 1],
                        [type |-> "error",
                         message |-> "Not enough tiles to exchange"]))
  ELSE IF playerIndex # room.currentTurnIndex THEN Outcome(room, <<>>)
  ELSE
  LET pi == playerIndex + 1
      player == room.players[pi]
      tilesToExchange ==
        FilterIdx(player.rack,
                  {i \in 1 .. Len(player.rack) : player.rack[i].id \in tileIds}, 1)
      rack1 == RackWithout(player.rack, tileIds)
      d == drawTiles(tilesToExchange \o room.tileBag, Len(tilesToExchange))
      r1 == [room EXCEPT
               !.players[pi].rack = rack1 \o d.drawn,
               !.tileBag = Reshuffle(d.remaining, k),
               !.consecutivePasses = 0,
               !.moveHistory = Append(@, [player |-> player.name, word |-> <<>>,
                                          score |-> 0, type |-> "exchange"]),
               !.currentTurnIndex = (@ + 1) % 2]
  IN Outcome(r1, sendStates(r1))

\* case "exchange_tiles", from the bag check on
exchangeTiles(room, playerId, tileIds, k) ==
  LET playerIndex == findIndex(room.players, playerId) IN
  IF Len(room.tileBag) < EXCHANGE_MIN_BAG
    THEN (IF playerIndex = -1
            THEN Thrown(room, <<>>)
            ELSE reject(room, room.players[playerIndex + 1],
                        [type |-> "error",
                         message |-> "Not enough tiles to exchange"]))
  ELSE IF playerIndex # room.currentTurnIndex THEN Outcome(room, <<>>)
  ELSE
  LET pi == playerIndex + 1
      player == room.players[pi]
      tilesToExchange ==
        FilterIdx(player.rack,
                  {i \in 1 .. Len(player.rack) : player.rack[i].id \in tileIds}, 1)
      rack1 == RackWithout(player.rack, tileIds)
      d == drawTiles(room.tileBag, Len(tilesToExchange))
      r1 == [room EXCEPT
               !.players[pi].rack = rack1 \o d.drawn,
               !.tileBag = Reshuffle(d.remaining \o tilesToExchange, k),
               !.consecutivePasses = 0,
               !.moveHistory = Append(@, [player |-> player.name, word |-> <<>>,
                                          score |-> 0, type |-> "exchange"]),
               !.currentTurnIndex = (@ + 1) % 2]
  IN Outcome(r1, sendStates(r1))


(***************************************************************************)
(* Client messages of the model                                            *)
(***************************************************************************)

\* The rack of the slot a connection's handler identifies itself as.
SenderRack(c) ==
  LET code == conn[c].currentRoomCode IN
  IF code \in DOMAIN rooms /\ findIndex(rooms[code].players, conn[c].playerId) # -1
    THEN rooms[code].players[findIndex(rooms[code].players, conn[c].playerId) + 1].rack
    ELSE <<>>

\* A pick names the k-th tile of the sender's rack and a cell.
PickSet(c) == (PickIndexes \cap (1 .. Len(SenderRack(c)))) \X Cells

Picks(c) == UNION {[1 .. n -> PickSet(c)] : n \in PlacedSizes}

\* One entry of msg.tiles.
ClientTile(c, pick, mode, first) ==
  LET base == SenderRack(c)[pick[1]]
  IN [id |-> IF mode = "foreign" /\ first THEN Foreign.id ELSE base.id,
      letter |-> IF mode = "forged" THEN Forged.letter ELSE base.letter,
      value |-> IF mode = "forged" THEN Forged.value ELSE base.value,
      isBlank |-> base.isBlank,
      row |-> pick[2][1], col |-> pick[2][2]]

ClientTiles(c, picks, mode) ==
  [i \in 1 .. Len(picks) |-> ClientTile(c, picks[i], mode, i = 1)]

\* The tileIds of an exchange_tiles message.
SwapIds(c) ==
  SUBSET ({SenderRack(c)[i].id : i \in SwapIndexes \cap (1 .. Len(SenderRack(c)))}
          \cup {Foreign.id})

CountType(history, type) ==
  Cardinality({i \in 1 .. Len(history) : history[i].type = type})

\* A turn action is handled only while the history of the sender's room is
\* below the bounds, or its game is over.
WithinBound(c, type, maxMoves, maxOfType) ==
  LET code == conn[c].currentRoomCode
  IN code \in DOMAIN rooms /\ ~rooms[code].gameOver =>
       /\ Len(rooms[code].moveHistory) < maxMoves
       /\ CountType(rooms[code].moveHistory, type) < maxOfType

\* Commit the outcome of a turn-action handler on the sender's room.
Commit(code, out) ==
  /\ rooms' = [rooms EXCEPT ![code] = out.room]
  /\ sent' = out.sent
  /\ threw' = out.threw
  /\ UNCHANGED <<conn, tileIdCounter, dealt, clockVars>>

\* the guard without its gameOver test
Ignored_noGameOver(c) ==
  LET code == conn[c].currentRoomCode
  IN code \notin DOMAIN rooms \/ ~rooms[code].started

\* if (!room || !room.started || room.gameOver) return;
Ignored(c) ==
  LET code == conn[c].currentRoomCode
  IN code \notin DOMAIN rooms \/ ~rooms[code].started \/ rooms[code].gameOver

Ignore ==
  /\ sent' = <<>>
  /\ threw' = FALSE
  /\ UNCHANGED <<rooms, conn, tileIdCounter, dealt, clockVars>>

PlaceTiles(c, placedTiles) ==
  /\ conn[c].open
  /\ handled' = [type |-> "place_tiles", ws |-> c]
  /\ IF Ignored(c) THEN Ignore
     ELSE Commit(conn[c].currentRoomCode,
                 placeTiles(rooms[conn[c].currentRoomCode], conn[c].playerId,
                            placedTiles))

PassTurn(c) ==
  /\ conn[c].open
  /\ handled' = [type |-> "pass_turn", ws |-> c]
  /\ IF Ignored(c) THEN Ignore
     ELSE Commit(conn[c].currentRoomCode,
                 passTurn(rooms[conn[c].currentRoomCode], conn[c].playerId))

ExchangeTiles(c, tileIds, k) ==
  /\ conn[c].open
  /\ handled' = [type |-> "exchange_tiles", ws |-> c]
  /\ IF Ignored(c) THEN Ignore
     ELSE Commit(conn[c].currentRoomCode,
                 exchangeTiles(rooms[conn[c].currentRoomCode], conn[c].playerId,
                               tileIds, k))

\* JSON.parse(raw.toString()): a syntax error, or the kind of value
JSONparse(raw) ==
  IF raw = "{}" THEN [ok |-> TRUE, value |-> "object"]
  ELSE IF raw = "null" THEN [ok |-> TRUE, value |-> Null]
  ELSE [ok |-> FALSE, value |-> Null]

\* The message handler for a text that is no message of the protocol: the
\* catch returns on a syntax error, msg.type throws on null, and the
\* switch has no case for an object without a known type.
RawMessage(c, raw) ==
  /\ conn[c].open
  /\ handled' = [type |-> "raw", ws |-> c, raw |-> raw]
  /\ sent' = <<>>
  /\ threw' = (JSONparse(raw).ok /\ JSONparse(raw).value = Null)
  /\ UNCHANGED <<rooms, conn, tileIdCounter, dealt, clockVars>>

\* msg.tiles of a place_tiles whose entries are null, or lack row and col
MalformedTiles(c, shape) ==
  IF shape = "null" \/ Len(SenderRack(c)) = 0 THEN <<NullEntry>>
  ELSE <<[id |-> SenderRack(c)[1].id, letter |-> SenderRack(c)[1].letter,
          value |-> SenderRack(c)[1].value]>>

\* r.players.every(p => !p.connected)
AllDisconnected(room) ==
  \A i \in 1 .. Len(room.players) : ~room.players[i].connected

\* ws.on("close"): the socket is closed when the handler runs
Close(c) ==
  /\ conn[c].open
  /\ handled' = [type |-> "close", ws |-> c]
  /\ conn' = [conn EXCEPT ![c].open = FALSE]
  /\ threw' = FALSE
  /\ UNCHANGED <<tileIdCounter, dealt, now, nextSweep>>
  /\ IF conn[c].currentRoomCode \notin DOMAIN rooms
       THEN /\ sent' = <<>>
            /\ UNCHANGED <<rooms, graceTimers>>
       ELSE LET code == conn[c].currentRoomCode
                room == rooms[code]
                pi == findIndex(room.players, conn[c].playerId)
                oi == findOtherIndex(room.players, conn[c].playerId)
                r1 == IF pi = -1 THEN room
                      ELSE [room EXCEPT !.players[pi + 1].connected = FALSE]
            IN /\ rooms' = [rooms EXCEPT ![code] = r1]
               /\ sent' = IF pi # -1 /\ oi # -1 /\ room.players[oi + 1].ws # c
                            THEN sendToPlayer(room.players[oi + 1],
                                              [type |-> "opponent_disconnected"])
                            ELSE <<>>
               /\ graceTimers' =
                    IF AllDisconnected(r1)
                      THEN Append(graceTimers,
                                  [code |-> code, due |-> now + GRACE_PERIOD])
                      ELSE graceTimers

\* the callback of the close handler's setTimeout; the callbacks run in
\* the order they were scheduled, all having the same delay
GraceTimeout ==
  /\ graceTimers # <<>>
  /\ Head(graceTimers).due <= now
  /\ handled' = [type |-> "timeout", ws |-> "", code |-> Head(graceTimers).code]
  /\ graceTimers' = Tail(graceTimers)
  /\ rooms' =
       IF /\ Head(graceTimers).code \in DOMAIN rooms
          /\ AllDisconnected(rooms[Head(graceTimers).code])
         THEN [code \in DOMAIN rooms \ {Head(graceTimers).code} |-> rooms[code]]
         ELSE rooms
  /\ sent' = <<>>
  /\ threw' = FALSE
  /\ UNCHANGED <<conn, tileIdCounter, dealt, now, nextSweep>>

\* the comparison with >= in place of >
TooOld_orEqual(room, time) == time - room.createdAt >= ROOM_MAX_AGE

\* if (now - room.createdAt > 3600000)
TooOld(room, time) == time - room.createdAt > ROOM_MAX_AGE

\* cleanupOldRooms, run by setInterval
cleanupOldRooms ==
  /\ now >= nextSweep
  /\ handled' = [type |-> "sweep", ws |-> ""]
  /\ rooms' = [code \in {k \in DOMAIN rooms : ~TooOld(rooms[k], now)} |->
                rooms[code]]
  /\ nextSweep' = nextSweep + SWEEP_INTERVAL
  /\ sent' = <<>>
  /\ threw' = FALSE
  /\ UNCHANGED <<conn, tileIdCounter, dealt, now, graceTimers>>

\* Time passes, by the period of the sweep, once every callback that is
\* due has run.
Tick(horizon) ==
  /\ now < horizon
  /\ now < nextSweep
  /\ graceTimers # <<>> => Head(graceTimers).due > now
  /\ now' = now + SWEEP_INTERVAL
  /\ handled' = [type |-> "tick", ws |-> ""]
  /\ sent' = <<>>
  /\ threw' = FALSE
  /\ UNCHANGED <<rooms, conn, tileIdCounter, dealt, graceTimers, nextSweep>>

RoomNext ==
  \/ \E c \in Conns, deck \in DeckSizes, front \in Fronts :
       CreateRoom(c, NameOf[c], deck, front) /\ UNCHANGED <<soloVars, callVars>>
  \/ \E c \in Conns, code \in Codes \cup {UnknownCode} :
       JoinRoom(c, code, NameOf[c]) /\ UNCHANGED <<soloVars, callVars>>
  \/ \E c \in Conns : \E picks \in Picks(c), mode \in Modes :
       /\ WithinBound(c, "play", MaxMoves, MaxMoves)
       /\ PlaceTiles(c, ClientTiles(c, picks, mode))
       /\ UNCHANGED <<soloVars, callVars>>
  \/ \E c \in Conns :
       /\ WithinBound(c, "pass", MaxMoves, MaxMoves)
       /\ PassTurn(c)
       /\ UNCHANGED <<soloVars, callVars>>
  \/ \E c \in Conns : \E tileIds \in SwapIds(c), k \in Reshuffles :
       /\ WithinBound(c, "exchange", MaxMoves, MaxMoves)
       /\ ExchangeTiles(c, tileIds, k)
       /\ UNCHANGED <<soloVars, callVars>>


\* The messages of an honest client: nothing, its first two tiles on the
\* center and the cell to its right, in either order, or its first tile on
\* the next cell of that row.
HonestPicks(c) ==
  {<<>>} \cup
  (IF Len(SenderRack(c)) >= 2
     THEN {<<<<1, <<7, 7>>>>, <<2, <<7, 8>>>>>>, <<<<2, <<7, 7>>>>, <<1, <<7, 8>>>>>>}
     ELSE {})
  \cup (IF Len(SenderRack(c)) >= 1 THEN {<<<<1, <<7, 9>>>>>>} ELSE {})

\* The server runs while the application has not been opened.
LongNext ==
  \/ \E c \in Conns, deck \in DeckSizes, front \in Fronts :
       SoloInit /\ CreateRoom(c, NameOf[c], deck, front) /\ UNCHANGED <<soloVars, callVars>>
  \/ \E c \in Conns, code \in Codes \cup {UnknownCode} :
       SoloInit /\ JoinRoom(c, code, NameOf[c]) /\ UNCHANGED <<soloVars, callVars>>
  \/ \E c \in Conns : \E picks \in HonestPicks(c) :
       /\ SoloInit
       /\ WithinBound(c, "play", MaxLongMoves, MaxLongPlays)
       /\ PlaceTiles(c, ClientTiles(c, picks, "honest"))
       /\ UNCHANGED <<soloVars, callVars>>
  \/ \E c \in Conns :
       /\ SoloInit
       /\ WithinBound(c, "pass", MaxLongMoves, MaxLongMoves)
       /\ PassTurn(c)
       /\ UNCHANGED <<soloVars, callVars>>
  \/ \E c \in Conns : \E tileIds \in SwapIds(c), k \in Reshuffles :
       /\ SoloInit
       /\ WithinBound(c, "exchange", MaxLongMoves, MaxLongSwaps)
       /\ ExchangeTiles(c, tileIds, k)
       /\ UNCHANGED <<soloVars, callVars>>

\* Connections that send what the protocol does not foresee, close and
\* reconnect, while the clock runs.
LifeNext ==
  \/ \E c \in Sockets, deck \in LifeDecks, front \in Fronts :
       CreateRoom(c, NameOf[c], deck, front) /\ UNCHANGED <<soloVars, callVars>>
  \/ \E c \in Sockets, code \in Codes \cup {UnknownCode} :
       JoinRoom(c, code, NameOf[c]) /\ UNCHANGED <<soloVars, callVars>>
  \/ \E c \in Sockets :
       /\ WithinBound(c, "pass", MaxLifeMoves, MaxLifeMoves)
       /\ PassTurn(c)
       /\ UNCHANGED <<soloVars, callVars>>
  \/ \E c \in Sockets, shape \in Malformations :
       PlaceTiles(c, MalformedTiles(c, shape)) /\ UNCHANGED <<soloVars, callVars>>
  \/ \E c \in Sockets, raw \in RawTexts :
       RawMessage(c, raw) /\ UNCHANGED <<soloVars, callVars>>
  \/ \E c \in Sockets : Close(c) /\ UNCHANGED <<soloVars, callVars>>
  \/ GraceTimeout /\ UNCHANGED <<soloVars, callVars>>
  \/ cleanupOldRooms /\ UNCHANGED <<soloVars, callVars>>
  \/ Tick(MaxLifeTicks * SWEEP_INTERVAL) /\ UNCHANGED <<soloVars, callVars>>

\* Rooms that age until the sweep takes them, and the turn actions of the
\* connections they leave behind.
SweepNext ==
  \/ \E c \in Sockets, deck \in LifeDecks, front \in Fronts :
       /\ tileIdCounter < MaxSweepRooms * (1 + Len(TableTiles(1, 0)))
       /\ now \in EarlyTimes \/ now > ROOM_MAX_AGE
       /\ CreateRoom(c, NameOf[c], deck, front)
       /\ UNCHANGED <<soloVars, callVars>>
  \/ \E c \in Sockets, code \in Codes :
       /\ code \in DOMAIN rooms
       /\ Len(rooms[code].players) < 2
       /\ JoinRoom(c, code, NameOf[c])
       /\ UNCHANGED <<soloVars, callVars>>
  \/ \E c \in Sockets : \E picks \in HonestPicks(c) :
       /\ WithinBound(c, "play", MaxSweepMoves, MaxSweepMoves)
       /\ PlaceTiles(c, ClientTiles(c, picks, "honest"))
       /\ UNCHANGED <<soloVars, callVars>>
  \/ \E c \in Sockets :
       /\ WithinBound(c, "pass", MaxSweepMoves, MaxSweepMoves)
       /\ PassTurn(c)
       /\ UNCHANGED <<soloVars, callVars>>
  \/ \E c \in Sockets : \E tileIds \in SwapIds(c), k \in Reshuffles :
       /\ WithinBound(c, "exchange", MaxSweepMoves, MaxSweepMoves)
       /\ ExchangeTiles(c, tileIds, k)
       /\ UNCHANGED <<soloVars, callVars>>
  \/ cleanupOldRooms /\ UNCHANGED <<soloVars, callVars>>
  \/ Tick(MaxSweepTicks * SWEEP_INTERVAL) /\ UNCHANGED <<soloVars, callVars>>

(***************************************************************************)
(* The single-player engine (lib/scrabble-engine.ts)                       *)
(***************************************************************************)

\* The engine's lexicon in the insertion order of its Set (a repeated
\* literal keeps its first place); findWordsFromRack walks it in this order.
ENGINE_WORDS ==
  <<
  <<"A","A">>, <<"A","B">>, <<"A","D">>, <<"A","E">>, <<"A","G">>, <<"A","H">>, <<"A","I">>,
  <<"A","L">>, <<"A","M">>, <<"A","N">>, <<"A","R">>, <<"A","S">>, <<"A","T">>, <<"A","W">>,
  <<"A","X">>, <<"A","Y">>, <<"B","A">>, <<"B","E">>, <<"B","I">>, <<"B","O">>, <<"B","Y">>,
  <<"D","A">>, <<"D","E">>, <<"D","O">>, <<"E","D">>, <<"E","F">>, <<"E","H">>, <<"E","L">>,
  <<"E","M">>, <<"E","N">>, <<"E","R">>, <<"E","S">>, <<"E","T">>, <<"E","W">>, <<"E","X">>,
  <<"F","A">>, <<"F","E">>, <<"G","I">>, <<"G","O">>, <<"H","A">>, <<"H","E">>, <<"H","I">>,
  <<"H","M">>, <<"H","O">>, <<"I","D">>, <<"I","F">>, <<"I","N">>, <<"I","S">>, <<"I","T">>,
  <<"J","O">>, <<"K","A">>, <<"K","I">>, <<"L","A">>, <<"L","I">>, <<"L","O">>, <<"M","A">>,
  <<"M","E">>, <<"M","I">>, <<"M","M">>, <<"M","O">>, <<"M","U">>, <<"M","Y">>, <<"N","A">>,
  <<"N","E">>, <<"N","O">>, <<"N","U">>, <<"O","D">>, <<"O","E">>, <<"O","F">>, <<"O","H">>,
  <<"O","I">>, <<"O","K">>, <<"O","M">>, <<"O","N">>, <<"O","P">>, <<"O","R">>, <<"O","S">>,
  <<"O","W">>, <<"O","X">>, <<"O","Y">>, <<"P","A">>, <<"P","E">>, <<"P","I">>, <<"P","O">>,
  <<"Q","I">>, <<"R","E">>, <<"S","H">>, <<"S","I">>, <<"S","O">>, <<"T","A">>, <<"T","I">>,
  <<"T","O">>, <<"U","H">>, <<"U","M">>, <<"U","N">>, <<"U","P">>, <<"U","S">>, <<"U","T">>,
  <<"W","E">>, <<"W","O">>, <<"X","I">>, <<"X","U">>, <<"Y","A">>, <<"Y","E">>, <<"Z","A">>,
  <<"T","H","E">>, <<"A","N","D">>, <<"F","O","R">>, <<"A","R","E">>, <<"B","U","T">>,
  <<"N","O","T">>, <<"Y","O","U">>, <<"A","L","L">>, <<"C","A","N">>, <<"H","E","R">>,
  <<"W","A","S">>, <<"O","N","E">>, <<"O","U","R">>, <<"O","U","T">>, <<"D","A","Y">>,
  <<"H","A","D">>, <<"H","A","S">>, <<"H","I","S">>, <<"H","O","W">>, <<"M","A","N">>,
  <<"N","E","W">>, <<"N","O","W">>, <<"O","L","D">>, <<"S","E","E">>, <<"W","A","Y">>,
  <<"W","H","O">>, <<"B","O","Y">>, <<"D","I","D">>, <<"G","E","T">>, <<"H","I","M">>,
  <<"H","I","T">>, <<"H","O","T">>, <<"L","E","T">>, <<"M","A","Y">>, <<"R","U","N">>,
  <<"S","A","Y">>, <<"S","H","E">>, <<"T","O","O">>, <<"U","S","E">>, <<"D","A","D">>,
  <<"M","O","M">>, <<"S","E","T">>, <<"T","E","N">>, <<"T","O","P">>, <<"R","E","D">>,
  <<"B","I","G">>, <<"B","A","D">>, <<"E","N","D">>, <<"F","A","R">>, <<"P","U","T">>,
  <<"R","A","N">>, <<"S","I","T">>, <<"T","R","Y">>, <<"A","S","K">>, <<"C","A","R">>,
  <<"E","A","T">>, <<"F","U","N">>, <<"G","O","D">>, <<"H","A","T">>, <<"J","A","R">>,
  <<"K","E","Y">>, <<"L","A","P">>, <<"M","A","P">>, <<"N","E","T">>, <<"O","W","L">>,
  <<"P","E","N">>, <<"R","A","G">>, <<"S","A","T">>, <<"T","A","P">>, <<"V","A","N">>,
  <<"W","A","R">>, <<"Y","A","M">>, <<"Z","A","P">>, <<"A","C","E">>, <<"A","G","E">>,
  <<"A","I","D">>, <<"A","I","M">>, <<"A","I","R">>, <<"A","L","E">>, <<"A","N","T">>,
  <<"A","P","E">>, <<"A","R","C">>, <<"A","R","K">>, <<"A","R","M">>, <<"A","R","T">>,
  <<"A","T","E">>, <<"A","W","E">>, <<"A","X","E">>, <<"B","A","G">>, <<"B","A","N">>,
  <<"B","A","R">>, <<"B","A","T">>, <<"B","E","D">>, <<"B","E","T">>, <<"B","I","T">>,
  <<"B","O","W">>, <<"B","O","X">>, <<"B","U","D">>, <<"B","U","G">>, <<"B","U","S">>,
  <<"B","U","Y">>, <<"C","A","B">>, <<"C","A","P">>, <<"C","A","T">>, <<"C","O","P">>,
  <<"C","O","T">>, <<"C","O","W">>, <<"C","R","Y">>, <<"C","U","B">>, <<"C","U","P">>,
  <<"C","U","T">>, <<"D","A","M">>, <<"D","E","N">>, <<"D","E","W">>, <<"D","I","G">>,
  <<"D","I","M">>, <<"D","I","P">>, <<"D","O","C">>, <<"D","O","G">>, <<"D","O","T">>,
  <<"D","R","Y">>, <<"D","U","B">>, <<"D","U","G">>, <<"D","U","N">>, <<"D","U","O">>,
  <<"E","A","R">>, <<"E","E","L">>, <<"E","G","G">>, <<"E","L","F">>, <<"E","L","K">>,
  <<"E","L","M">>, <<"E","M","U">>, <<"E","R","A">>, <<"E","V","E">>, <<"E","W","E">>,
  <<"E","Y","E">>, <<"F","A","N">>, <<"F","A","T">>, <<"F","A","X">>, <<"F","E","D">>,
  <<"F","E","W">>, <<"F","I","G">>, <<"F","I","N">>, <<"F","I","T">>, <<"F","I","X">>,
  <<"F","L","Y">>, <<"F","O","B">>, <<"F","O","E">>, <<"F","O","G">>, <<"F","O","P">>,
  <<"F","O","X">>, <<"F","R","Y">>, <<"F","U","R">>, <<"G","A","B">>, <<"G","A","G">>,
  <<"G","A","P">>, <<"G","A","S">>, <<"G","E","L">>, <<"G","E","M">>, <<"G","N","U">>,
  <<"G","O","B">>, <<"G","O","T">>, <<"G","U","M">>, <<"G","U","N">>, <<"G","U","T">>,
  <<"G","U","Y">>, <<"G","Y","M">>, <<"A","B","L","E">>, <<"A","L","S","O">>, <<"A","R","E","A">>,
  <<"A","R","M","Y">>, <<"A","W","A","Y">>, <<"B","A","C","K">>, <<"B","A","L","L">>,
  <<"B","A","N","D">>, <<"B","A","N","K">>, <<"B","A","S","E">>, <<"B","A","T","H">>,
  <<"B","E","A","N">>, <<"B","E","A","R">>, <<"B","E","A","T">>, <<"B","E","E","N">>,
  <<"B","E","E","R">>, <<"B","E","L","L">>, <<"B","E","L","T">>, <<"B","E","N","D">>,
  <<"B","E","S","T">>, <<"B","I","L","L">>, <<"B","I","R","D">>, <<"B","I","T","E">>,
  <<"B","L","O","W">>, <<"B","L","U","E">>, <<"B","O","A","T">>, <<"B","O","D","Y">>,
  <<"B","O","L","D">>, <<"B","O","M","B">>, <<"B","O","N","D">>, <<"B","O","N","E">>,
  <<"B","O","O","K">>, <<"B","O","O","T">>, <<"B","O","R","E">>, <<"B","O","R","N">>,
  <<"B","O","S","S">>, <<"B","O","T","H">>, <<"B","O","W","L">>, <<"B","U","L","K">>,
  <<"B","U","R","N">>, <<"B","U","S","Y">>, <<"C","A","K","E">>, <<"C","A","L","L">>,
  <<"C","A","L","M">>, <<"C","A","M","E">>, <<"C","A","M","P">>, <<"C","A","R","D">>,
  <<"C","A","R","E">>, <<"C","A","R","T">>, <<"C","A","S","E">>, <<"C","A","S","H">>,
  <<"C","A","S","T">>, <<"C","A","V","E">>, <<"C","H","I","P">>, <<"C","I","T","Y">>,
  <<"C","L","A","D">>, <<"C","L","A","Y">>, <<"C","L","I","P">>, <<"C","L","U","B">>,
  <<"C","L","U","E">>, <<"C","O","A","L">>, <<"C","O","A","T">>, <<"C","O","D","E">>,
  <<"C","O","I","N">>, <<"C","O","L","D">>, <<"C","O","L","E">>, <<"C","O","M","E">>,
  <<"C","O","O","K">>, <<"C","O","O","L">>, <<"C","O","P","E">>, <<"C","O","P","Y">>,
  <<"C","O","R","D">>, <<"C","O","R","E">>, <<"C","O","R","N">>, <<"C","O","S","T">>,
  <<"C","R","E","W">>, <<"C","R","O","P">>, <<"C","R","O","W">>, <<"C","U","R","E">>,
  <<"C","U","R","L">>, <<"C","U","T","E">>, <<"D","A","L","E">>, <<"D","A","M","E">>,
  <<"D","A","M","N">>, <<"D","A","R","E">>, <<"D","A","R","K">>, <<"D","A","S","H">>,
  <<"D","A","T","A">>, <<"D","A","T","E">>, <<"D","A","W","N">>, <<"D","E","A","D">>,
  <<"D","E","A","F">>, <<"D","E","A","L">>, <<"D","E","A","N">>, <<"D","E","A","R">>,
  <<"D","E","B","T">>, <<"D","E","C","K">>, <<"D","E","E","D">>, <<"D","E","E","M">>,
  <<"D","E","E","P">>, <<"D","E","E","R">>, <<"D","E","N","Y">>, <<"D","E","S","K">>,
  <<"D","I","A","L">>, <<"D","I","C","E">>, <<"D","I","E","T">>, <<"D","I","R","E">>,
  <<"D","I","R","T">>, <<"D","I","S","H">>, <<"D","I","S","K">>, <<"D","O","C","K">>,
  <<"D","O","E","S">>, <<"D","O","N","E">>, <<"D","O","O","M">>, <<"D","O","O","R">>,
  <<"D","O","S","E">>, <<"D","O","W","N">>, <<"D","R","A","G">>, <<"D","R","A","W">>,
  <<"D","R","E","W">>, <<"D","R","O","P">>, <<"D","R","U","M">>, <<"D","U","A","L">>,
  <<"D","U","E","L">>, <<"D","U","K","E">>, <<"D","U","L","L">>, <<"D","U","M","B">>,
  <<"D","U","M","P">>, <<"D","U","N","E">>, <<"D","U","S","T">>, <<"D","U","T","Y">>,
  <<"E","A","C","H">>, <<"E","A","R","L">>, <<"E","A","R","N">>, <<"E","A","S","E">>,
  <<"E","A","S","T">>, <<"E","A","S","Y">>, <<"E","D","G","E">>, <<"E","D","I","T">>,
  <<"E","L","S","E">>, <<"E","V","E","N">>, <<"E","V","E","R">>, <<"E","V","I","L">>,
  <<"E","X","A","M">>, <<"E","X","E","C">>, <<"F","A","C","E">>, <<"F","A","C","T">>,
  <<"F","A","D","E">>, <<"F","A","I","L">>, <<"F","A","I","R">>, <<"F","A","K","E">>,
  <<"F","A","L","L">>, <<"F","A","M","E">>, <<"F","A","N","G">>, <<"F","A","R","E">>,
  <<"F","A","R","M">>, <<"F","A","S","T">>, <<"F","A","T","E">>, <<"F","E","A","R">>,
  <<"F","E","A","T">>, <<"F","E","E","D">>, <<"F","E","E","L">>, <<"F","E","E","T">>,
  <<"F","E","L","L">>, <<"F","E","L","T">>, <<"F","I","L","E">>, <<"F","I","L","L">>,
  <<"F","I","L","M">>, <<"F","I","N","D">>, <<"F","I","N","E">>, <<"F","I","R","E">>,
  <<"F","I","R","M">>, <<"F","I","S","H">>, <<"F","I","S","T">>, <<"F","L","A","G">>,
  <<"F","L","A","T">>, <<"F","L","E","D">>, <<"F","L","E","W">>, <<"F","L","I","P">>,
  <<"F","L","O","W">>, <<"F","O","A","M">>, <<"F","O","L","D">>, <<"F","O","L","K">>,
  <<"F","O","N","D">>, <<"F","O","N","T">>, <<"F","O","O","D">>, <<"F","O","O","L">>,
  <<"F","O","O","T">>, <<"F","O","R","D">>, <<"F","O","R","E">>, <<"F","O","R","K">>,
  <<"F","O","R","M">>, <<"F","O","R","T">>, <<"F","O","U","L">>, <<"F","O","U","R">>,
  <<"F","R","E","E">>, <<"F","R","O","M">>, <<"F","U","E","L">>, <<"F","U","L","L">>,
  <<"F","U","N","D">>, <<"F","U","R","Y">>, <<"F","U","S","E">>, <<"G","A","I","N">>,
  <<"G","A","L","E">>, <<"G","A","M","E">>, <<"G","A","N","G">>, <<"G","A","P","E">>,
  <<"G","A","T","E">>, <<"G","A","V","E">>, <<"G","A","Z","E">>, <<"G","E","A","R">>,
  <<"G","E","N","E">>, <<"G","I","F","T">>, <<"G","I","R","L">>, <<"G","I","V","E">>,
  <<"G","L","A","D">>, <<"G","L","E","N">>, <<"G","L","O","W">>, <<"G","L","U","E">>,
  <<"G","O","A","T">>, <<"G","O","E","S">>, <<"G","O","L","D">>, <<"G","O","L","F">>,
  <<"G","O","N","E">>, <<"G","O","O","D">>, <<"G","R","A","B">>, <<"G","R","A","Y">>,
  <<"G","R","E","W">>, <<"G","R","I","D">>, <<"G","R","I","M">>, <<"G","R","I","N">>,
  <<"G","R","I","P">>, <<"G","R","O","W">>, <<"G","U","L","F">>, <<"G","U","R","U">>,
  <<"G","U","S","T">>, <<"Q","U","I","Z">>, <<"Q","U","A","G">>, <<"Q","U","A","D">>,
  <<"Q","O","P","H">>, <<"J","A","Z","Z">>, <<"B","U","Z","Z">>, <<"F","I","Z","Z">>,
  <<"F","U","Z","Z">>, <<"R","A","Z","Z">>, <<"T","I","Z","Z">>, <<"Z","E","A","L">>,
  <<"Z","E","R","O">>, <<"Z","I","N","C">>, <<"Z","O","N","E">>, <<"Z","O","O","M">>,
  <<"J","I","N","X">>, <<"J","I","V","E">>, <<"J","O","K","E">>, <<"J","U","M","P">>,
  <<"J","U","R","Y">>, <<"J","U","S","T">>, <<"T","A","X","I">>, <<"T","E","X","T">>,
  <<"N","E","X","T">>, <<"E","X","I","T">>, <<"A","P","E","X">>, <<"O","X","E","N">>,
  <<"K","N","O","B">>, <<"K","N","E","E">>, <<"K","N","E","W">>, <<"K","N","I","T">>,
  <<"K","N","O","T">>, <<"K","N","O","W">>, <<"W","R","E","N">>, <<"W","R","A","P">>,
  <<"W","R","I","T">>, <<"W","A","K","E">>, <<"W","A","G","E">>, <<"W","A","D","E">>,
  <<"W","A","I","T">>, <<"W","A","L","K">>, <<"W","A","L","L">>, <<"W","A","N","T">>,
  <<"W","A","R","D">>, <<"W","A","R","M">>, <<"W","A","R","N">>, <<"W","A","R","P">>,
  <<"W","A","S","H">>, <<"W","A","V","E">>, <<"W","E","A","K">>, <<"W","E","A","R">>,
  <<"W","E","E","D">>, <<"W","E","E","K">>, <<"W","E","L","L">>, <<"W","E","N","T">>,
  <<"W","E","R","E">>, <<"W","E","S","T">>, <<"W","H","A","T">>, <<"W","H","E","N">>,
  <<"W","H","O","M">>, <<"W","I","D","E">>, <<"W","I","F","E">>, <<"W","I","L","D">>,
  <<"W","I","L","L">>, <<"W","I","N","D">>, <<"W","I","N","E">>, <<"W","I","N","G">>,
  <<"W","I","R","E">>, <<"W","I","S","E">>, <<"W","I","S","H">>, <<"W","I","T","H">>,
  <<"W","O","K","E">>, <<"W","O","L","F">>, <<"W","O","M","B">>, <<"W","O","O","D">>,
  <<"W","O","O","L">>, <<"W","O","R","D">>, <<"W","O","R","E">>, <<"W","O","R","K">>,
  <<"W","O","R","M">>, <<"W","O","R","N">>, <<"W","O","R","L","D">>, <<"W","O","U","L","D">>,
  <<"W","R","I","T","E">>, <<"W","R","O","N","G">>, <<"A","B","O","U","T">>,
  <<"A","B","O","V","E">>, <<"A","F","T","E","R">>, <<"A","G","A","I","N">>,
  <<"B","E","I","N","G">>, <<"B","E","L","O","W">>, <<"B","L","A","C","K">>,
  <<"B","O","A","R","D">>, <<"B","R","A","I","N">>, <<"B","R","E","A","D">>,
  <<"B","R","E","A","K">>, <<"B","R","I","N","G">>, <<"B","R","O","A","D">>,
  <<"B","R","O","W","N">>, <<"B","U","I","L","D">>, <<"C","A","R","R","Y">>,
  <<"C","A","T","C","H">>, <<"C","A","U","S","E">>, <<"C","H","A","I","N">>,
  <<"C","H","A","I","R">>, <<"C","H","E","A","P">>, <<"C","H","E","C","K">>,
  <<"C","H","I","E","F">>, <<"C","H","I","L","D">>, <<"C","H","I","N","A">>,
  <<"C","L","A","I","M">>, <<"C","L","A","S","S">>, <<"C","L","E","A","N">>,
  <<"C","L","E","A","R">>, <<"C","L","I","M","B">>, <<"C","L","O","C","K">>,
  <<"C","L","O","S","E">>, <<"C","L","O","U","D">>, <<"C","O","A","C","H">>,
  <<"C","O","A","S","T">>, <<"C","O","L","O","R">>, <<"C","O","M","E","S">>,
  <<"C","O","U","L","D">>, <<"C","O","U","N","T">>, <<"C","O","U","R","T">>,
  <<"C","O","V","E","R">>, <<"C","R","A","F","T">>, <<"C","R","A","S","H">>,
  <<"C","R","A","Z","Y">>, <<"C","R","E","A","M">>, <<"C","R","I","M","E">>,
  <<"C","R","O","S","S">>, <<"C","R","O","W","D">>, <<"C","R","O","W","N">>,
  <<"C","U","R","V","E">>, <<"C","Y","C","L","E">>, <<"D","A","N","C","E">>,
  <<"D","E","A","T","H">>, <<"D","E","P","T","H">>, <<"D","O","U","B","T">>,
  <<"D","R","A","F","T">>, <<"D","R","A","I","N">>, <<"D","R","A","M","A">>,
  <<"D","R","A","W","N">>, <<"D","R","E","A","M">>, <<"D","R","E","S","S">>,
  <<"D","R","I","E","D">>, <<"D","R","I","N","K">>, <<"D","R","I","V","E">>,
  <<"D","R","O","V","E">>, <<"D","Y","I","N","G">>, <<"E","A","G","E","R">>,
  <<"E","A","R","L","Y">>, <<"E","A","R","T","H">>, <<"E","I","G","H","T">>,
  <<"E","L","E","C","T">>, <<"E","L","I","T","E">>, <<"E","M","P","T","Y">>,
  <<"E","N","E","M","Y">>, <<"E","N","J","O","Y">>, <<"E","N","T","E","R">>,
  <<"E","N","T","R","Y">>, <<"E","Q","U","A","L">>, <<"E","R","R","O","R">>,
  <<"E","V","E","N","T">>, <<"E","V","E","R","Y">>, <<"E","X","A","C","T">>,
  <<"E","X","T","R","A">>, <<"F","A","I","T","H">>, <<"F","A","L","S","E">>,
  <<"F","A","U","L","T">>, <<"F","E","A","S","T">>, <<"F","E","N","C","E">>,
  <<"F","E","W","E","R">>, <<"F","I","B","E","R">>, <<"F","I","E","L","D">>,
  <<"F","I","F","T","H">>, <<"F","I","F","T","Y">>, <<"F","I","G","H","T">>,
  <<"F","I","N","A","L">>, <<"F","I","N","D","S">>, <<"F","I","R","S","T">>,
  <<"F","I","X","E","D">>, <<"F","L","A","M","E">>, <<"F","L","A","S","H">>,
  <<"F","L","E","E","T">>, <<"F","L","E","S","H">>, <<"F","L","I","E","S">>,
  <<"F","L","O","A","T">>, <<"F","L","O","O","D">>, <<"F","L","O","O","R">>,
  <<"F","L","O","U","R">>, <<"F","L","U","I","D">>, <<"F","L","U","S","H">>,
  <<"F","O","C","U","S">>, <<"F","O","R","C","E">>, <<"F","O","R","T","H">>,
  <<"F","O","U","N","D">>, <<"F","R","A","M","E">>, <<"F","R","A","N","K">>,
  <<"F","R","A","U","D">>, <<"F","R","E","S","H">>, <<"F","R","O","N","T">>,
  <<"F","R","O","S","T">>, <<"F","R","U","I","T">>, <<"F","U","L","L","Y">>,
  <<"F","U","N","N","Y">>
  >>

ENGINE_WORD_SET == {ENGINE_WORDS[i] : i \in 1 .. Len(ENGINE_WORDS)}

\* COMMON_WORDS.has(word.toUpperCase())
engine_isValidWord(word) == toUpperCase(word) \in ENGINE_WORD_SET

\* createTileBag: the same loops over the same table, then shuffleArray
engine_createTileBag(idc, front) == DealFront(TableTiles(1, idc), front)

\* drawTiles
engine_drawTiles(bag, count) ==
  LET n == Min(count, Len(bag))
  IN [drawn |-> SubSeq(bag, 1, n), remaining |-> SubSeq(bag, n + 1, Len(bag))]

\* the engine's validatePlacement
engine_validatePlacement(board, placedTiles, isFirstMove) ==
  IF Len(placedTiles) = 0 THEN Invalid("No tiles placed")
  ELSE
    LET n == Len(placedTiles)
        sameRow == \A i \in 1 .. n : placedTiles[i].row = placedTiles[1].row
        sameCol == \A i \in 1 .. n : placedTiles[i].col = placedTiles[1].col
        Bad == {i \in 1 .. n :
                  \/ OutOfBounds(placedTiles[i])
                  \/ TileAt(board, <<placedTiles[i].row, placedTiles[i].col>>) # NoTile}
        cols == {placedTiles[i].col : i \in 1 .. n}
        rows == {placedTiles[i].row : i \in 1 .. n}
    IN
    IF ~sameRow /\ ~sameCol
      THEN Invalid("Tiles must be in a single row or column")
    ELSE IF Bad # {}
      THEN (IF OutOfBounds(placedTiles[SetMin(Bad)])
              THEN Invalid("Tile out of bounds")
              ELSE Invalid("Cell already occupied"))
    ELSE IF isFirstMove
            /\ ~(\E i \in 1 .. n : placedTiles[i].row = 7 /\ placedTiles[i].col = 7)
      THEN Invalid("First word must cover the center square")
    ELSE IF isFirstMove /\ n < 2
      THEN Invalid("First word must be at least 2 letters")
    ELSE IF ~isFirstMove /\ ~TouchesExisting(board, placedTiles)
      THEN Invalid("Word must connect to existing tiles")
    ELSE IF sameRow
      THEN (IF GapInRow(board, placedTiles[1].row, cols)
              THEN Invalid("Gaps in word placement")
              ELSE Valid)
    ELSE (IF GapInCol(board, placedTiles[1].col, rows)
            THEN Invalid("Gaps in word placement")
            ELSE Valid)

\* the engine's getFormedWords: statement for statement the server's
engine_getFormedWords(board, placedTiles) == getFormedWords(board, placedTiles)

ENGINE_BINGO_BONUS == 50

\* the engine's initPremiumMap and getPremiumType: the four lists are
\* assigned in the order TW, DW, TL, DL and then the center, so a later
\* list wins; a key that was never assigned reads as 'none'.
ENGINE_PREMIUM_MAP ==
  LET eTW == {<<0,0>>,<<0,7>>,<<0,14>>,<<7,0>>,<<7,14>>,<<14,0>>,<<14,7>>,<<14,14>>}
      eDW == {<<1,1>>,<<2,2>>,<<3,3>>,<<4,4>>,<<10,10>>,<<11,11>>,<<12,12>>,<<13,13>>,
              <<1,13>>,<<2,12>>,<<3,11>>,<<4,10>>,<<10,4>>,<<11,3>>,<<12,2>>,<<13,1>>}
      eTL == {<<1,5>>,<<1,9>>,<<5,1>>,<<5,5>>,<<5,9>>,<<5,13>>,
              <<9,1>>,<<9,5>>,<<9,9>>,<<9,13>>,<<13,5>>,<<13,9>>}
      eDL == {<<0,3>>,<<0,11>>,<<2,6>>,<<2,8>>,<<3,0>>,<<3,7>>,<<3,14>>,
              <<6,2>>,<<6,6>>,<<6,8>>,<<6,12>>,
              <<7,3>>,<<7,11>>,
              <<8,2>>,<<8,6>>,<<8,8>>,<<8,12>>,
              <<11,0>>,<<11,7>>,<<11,14>>,<<12,6>>,<<12,8>>,<<14,3>>,<<14,11>>}
  IN [p \in Coord |->
        IF p = <<7, 7>> THEN "CENTER"
        ELSE IF p \in eDL THEN "DL"
        ELSE IF p \in eTL THEN "TL"
        ELSE IF p \in eDW THEN "DW"
        ELSE IF p \in eTW THEN "TW"
        ELSE "none"]

RECURSIVE engine_WordScore(_, _, _, _)
\* inner loop of calculateMoveScore over one word's tiles
engine_WordScore(tiles, i, wordScore, wordMultiplier) ==
  IF i > Len(tiles) THEN wordScore * wordMultiplier
  ELSE LET t == tiles[i]
           premium == ENGINE_PREMIUM_MAP[<<t.row, t.col>>]
           letterScore == IF t.isNew /\ premium = "DL" THEN t.value * 2
                          ELSE IF t.isNew /\ premium = "TL" THEN t.value * 3
                          ELSE t.value
           wm == IF t.isNew /\ (premium = "DW" \/ premium = "CENTER")
                   THEN wordMultiplier * 2
                 ELSE IF t.isNew /\ premium = "TW" THEN wordMultiplier * 3
                 ELSE wordMultiplier
       IN engine_WordScore(tiles, i + 1, wordScore + letterScore, wm)

RECURSIVE engine_SumWordScores(_, _)
\* outer loop of calculateMoveScore over the formed words
engine_SumWordScores(formedWords, i) ==
  IF i > Len(formedWords) THEN 0
  ELSE engine_WordScore(formedWords[i].tiles, 1, 0, 1)
       + engine_SumWordScores(formedWords, i + 1)

calculateMoveScore(board, placedTiles) ==
  engine_SumWordScores(engine_getFormedWords(board, placedTiles), 1)
  + (IF Len(placedTiles) = 7 THEN ENGINE_BINGO_BONUS ELSE 0)

\* a deduction that counts the tiles instead of adding their values
calculateEndgameDeductions_countsTiles(rack) == Len(rack)

RECURSIVE calculateEndgameDeductions(_)
\* rack.reduce((sum, t) => sum + t.value, 0)
calculateEndgameDeductions(rack) ==
  IF rack = <<>> THEN 0
  ELSE Head(rack).value + calculateEndgameDeductions(Tail(rack))

\* arr.indexOf(x), 1-based; 0 when absent
IndexOf(seq, x) ==
  IF \E i \in 1 .. Len(seq) : seq[i] = x
    THEN SetMin({i \in 1 .. Len(seq) : seq[i] = x})
    ELSE 0

UpperLetter(l) == IF l \in DOMAIN UpperOf THEN UpperOf[l] ELSE l

TileIds(tiles) == {tiles[i].id : i \in 1 .. Len(tiles)}

RECURSIVE FormWord(_, _, _, _)
\* The loop over the letters of one word in findWordsFromRack: the tiles it
\* uses, or << >> when canForm turns false.
FormWord(rack, word, available, usedTiles) ==
  IF word = <<>> THEN usedTiles
  ELSE
    LET ch == Head(word)
        idx == IndexOf(available, ch)
        Free == {ti \in 1 .. Len(rack) :
                   /\ UpperLetter(rack[ti].letter) = ch
                   /\ rack[ti].id \notin TileIds(usedTiles)}
        blankIdx == IndexOf(available, "")
        Blanks == {ti \in 1 .. Len(rack) :
                     /\ rack[ti].isBlank
                     /\ rack[ti].id \notin TileIds(usedTiles)}
    IN IF idx # 0
         THEN (IF Free # {}
                 THEN FormWord(rack, Tail(word), RemoveAt(available, idx),
                               Append(usedTiles, rack[SetMin(Free)]))
                 ELSE <<>>)
       ELSE IF blankIdx # 0
         THEN (IF Blanks # {}
                 THEN FormWord(rack, Tail(word), RemoveAt(available, blankIdx),
                               Append(usedTiles,
                                      [rack[SetMin(Blanks)] EXCEPT !.letter = ch]))
                 ELSE <<>>)
       ELSE <<>>

RECURSIVE Ascending(_, _, _)
\* the members of S between lo and hi in increasing order, by halving
Ascending(S, lo, hi) ==
  IF lo > hi THEN <<>>
  ELSE IF lo = hi THEN (IF lo \in S THEN <<lo>> ELSE <<>>)
  ELSE Ascending(S, lo, (lo + hi) \div 2)
       \o Ascending(S, ((lo + hi) \div 2) + 1, hi)

\* the members of a set of numbers in increasing order
SeqOfSet(S) ==
  IF S = {} THEN <<>> ELSE Ascending(S, SetMin(S), SetMax(S))

findWordsFromRack(rack, minLen, maxLen) ==
  LET letters == [i \in 1 .. Len(rack) |-> UpperLetter(rack[i].letter)]
      Formed == {w \in 1 .. Len(ENGINE_WORDS) :
                   /\ Len(ENGINE_WORDS[w]) >= minLen
                   /\ Len(ENGINE_WORDS[w]) <= maxLen
                   /\ Len(FormWord(rack, ENGINE_WORDS[w], letters, <<>>))
                        = Len(ENGINE_WORDS[w])}
      order == SeqOfSet(Formed)
  IN [k \in 1 .. Len(order) |->
        FormWord(rack, ENGINE_WORDS[order[k]], letters, <<>>)]

\* { ...tile, row, col }
Placed(tile, row, col) ==
  [id |-> tile.id, letter |-> tile.letter, value |-> tile.value,
   isBlank |-> tile.isBlank, row |-> row, col |-> col]

RECURSIVE Attempts(_, _)
\* the loops of tryExtendFromPosition over len, horizontal and offset
Attempts(len, maxLen) ==
  IF len > maxLen THEN <<>>
  ELSE [k \in 1 .. 2 * (len + 1) |->
          [len |-> len,
           horizontal |-> k <= len + 1,
           offset |-> ((k - 1) % (len + 1)) - len]]
       \o Attempts(len + 1, maxLen)

\* a word check that pushes the move whatever words it forms
ExtendWords_anyWord(board, tiles, formedWords) ==
  <<[tiles |-> tiles, score |-> calculateMoveScore(board, tiles)]>>

\* the word check of tryExtendFromPosition: the move it pushes, if any
ExtendWords(board, tiles, formedWords) ==
  IF /\ Len(formedWords) > 0
     /\ \A w \in 1 .. Len(formedWords) :
          engine_isValidWord(formedWords[w].word)
    THEN <<[tiles |-> tiles, score |-> calculateMoveScore(board, tiles)]>>
    ELSE <<>>

\* one pass of the innermost body of tryExtendFromPosition
ExtendMove(board, rack, row, col, a) ==
  LET tiles == [i \in 1 .. a.len |->
                  Placed(rack[i],
                         IF a.horizontal THEN row ELSE row + a.offset + (i - 1),
                         IF a.horizontal THEN col + a.offset + (i - 1) ELSE col)]
      valid == \A i \in 1 .. a.len :
                 /\ ~OutOfBounds(tiles[i])
                 /\ TileAt(board, <<tiles[i].row, tiles[i].col>>) = NoTile
  IN IF ~valid THEN <<>>
     ELSE IF ~engine_validatePlacement(board, tiles, FALSE).valid THEN <<>>
     ELSE ExtendWords(board, tiles, engine_getFormedWords(board, tiles))

RECURSIVE ExtendMoves(_, _, _, _, _, _)
ExtendMoves(board, rack, row, col, attempts, i) ==
  IF i > Len(attempts) THEN <<>>
  ELSE ExtendMove(board, rack, row, col, attempts[i])
       \o ExtendMoves(board, rack, row, col, attempts, i + 1)

tryExtendFromPosition(board, rack, row, col) ==
  ExtendMoves(board, rack, row, col, Attempts(1, Min(Len(rack), 4)), 1)

\* one pass of the isFirstMove loop of generateAIMove: the move it pushes
FirstMove(board, word) ==
  LET tiles == [k \in 1 .. Len(word) |->
                  Placed(word[k], 7, 7 - (Len(word) \div 2) + (k - 1))]
  IN IF engine_validatePlacement(board, tiles, TRUE).valid
       THEN <<[tiles |-> tiles, score |-> calculateMoveScore(board, tiles)]>>
       ELSE <<>>

RECURSIVE FirstMovesIn(_, _, _, _)
\* the passes lo .. hi of the loop, in order, by halving
FirstMovesIn(board, words, lo, hi) ==
  IF lo > hi THEN <<>>
  ELSE IF lo = hi THEN FirstMove(board, words[lo])
  ELSE FirstMovesIn(board, words, lo, (lo + hi) \div 2)
       \o FirstMovesIn(board, words, ((lo + hi) \div 2) + 1, hi)

\* the isFirstMove loop of generateAIMove over the words of the rack
FirstMoves(board, words, i) == FirstMovesIn(board, words, i, Len(words))

RECURSIVE BoardMoves(_, _, _, _)
\* the loops over r and c of generateAIMove, cells in row-major order
BoardMoves(board, rack, cells, i) ==
  IF i > Len(cells) THEN <<>>
  ELSE tryExtendFromPosition(board, rack, cells[i] \div BOARD_SIZE,
                             cells[i] % BOARD_SIZE)
       \o BoardMoves(board, rack, cells, i + 1)

\* the place of moves[i] after a stable sort, best score first
SortedPlace(moves, i) ==
  1 + Cardinality({j \in 1 .. Len(moves) :
                     \/ moves[j].score > moves[i].score
                     \/ j < i /\ moves[j].score = moves[i].score})

\* possibleMoves.sort((a, b) => b.score - a.score): stable, best first
SortByScore(moves) ==
  CHOOSE sorted \in
    {[p \in 1 .. Len(moves) |-> moves[CHOOSE i \in 1 .. Len(moves) : place[i] = p]] :
       place \in {[i \in 1 .. Len(moves) |-> SortedPlace(moves, i)]}} : TRUE

\* possibleMoves of generateAIMove after the sort
possibleMoves(board, aiRack, isFirstMove) ==
  SortByScore(
    IF isFirstMove
      THEN FirstMoves(board, findWordsFromRack(aiRack, 2, 7), 1)
      ELSE BoardMoves(board, aiRack,
                      SeqOfSet({p[1] * BOARD_SIZE + p[2] : p \in DOMAIN board}), 1))

\* a choice in which easy draws among the best five
moveIndexes_easyFromTop(n, diff) ==
  IF diff = "hard" THEN {0} ELSE 0 .. Min(n, IF diff = "easy" THEN 5 ELSE 3) - 1

\* moveIndex of generateAIMove for every outcome of Math.random()
moveIndexes(n, diff) ==
  IF diff = "easy"
    THEN {Min(n - 1, r + (n \div 2)) : r \in 0 .. Min(n, 5) - 1}
  ELSE IF diff = "medium"
    THEN 0 .. Min(n, 3) - 1
  ELSE {0}

SOLO_RACK_SIZE == 7
SOLO_MAX_PASSES == 4
SOLO_EXCHANGE_MIN_BAG == 7

\* initializeGame, dealt from the first `deck` tiles of the shuffled bag
initializeGame(idc, deck, front) ==
  LET tileBag == SubSeq(engine_createTileBag(idc, front), 1, deck)
      d1 == engine_drawTiles(tileBag, SOLO_RACK_SIZE)
      d2 == engine_drawTiles(d1.remaining, SOLO_RACK_SIZE)
  IN [board |-> createEmptyBoard,
      playerRack |-> d1.drawn,
      aiRack |-> d2.drawn,
      tileBag |-> d2.remaining,
      playerScore |-> 0,
      aiScore |-> 0,
      currentTurn |-> "player",
      moveHistory |-> <<>>,
      isFirstMove |-> TRUE,
      consecutivePasses |-> 0,
      gameOver |-> FALSE,
      winner |-> Null]

(***************************************************************************)
(* The single-player game (lib/game-context.tsx)                           *)
(***************************************************************************)

\* The games the model deals: the size of the deck and the letters the
\* shuffle brings to the front.  With 8 tiles the AI holds one tile it
\* cannot play, with 9 it holds a word, with 21 both racks are full, the
\* AI's of consonants, and the bag holds 7.
SoloDeals ==
  {[deck |-> 8, front |-> <<"F","R","O","N","T","O","E", "Q">>],
   [deck |-> 9, front |-> <<"F","R","O","N","T","O","E", "A","T">>],
   [deck |-> 21, front |-> <<"F","R","O","N","T","O","E",
                             "Q","Z","X","J","V","K","W", "A","T","E">>]}
\* The player selects the tile at one of these positions of the rack and
\* taps cells of SoloCells, never further than the first free one.
SoloPickIndexes == {1}
SoloCells ==
  <<<<7, 7>>, <<7, 8>>, <<7, 9>>, <<7, 10>>, <<7, 11>>, <<6, 10>>, <<8, 10>>>>
\* exchangeTiles names the tiles at these positions of the rack
SoloSwapIndexes == {1}
Difficulties == {"easy", "medium", "hard"}
\* The player submits, passes or exchanges while the history holds fewer
\* than MaxSoloMoves records.  At most MaxGames games are started, a
\* game after the first from Rematches.
MaxSoloMoves == 5
MaxGames == 2
Rematches == {deal \in SoloDeals : deal.deck = 8}
\* The player exchanges at most MaxSoloSwaps times in a game, recalls once
\* the whole rack is placed, and shuffles a rack of ShuffleSizes tiles.
MaxSoloSwaps == 1
ShuffleSizes == {0, 1, 2}
\* The player passes or exchanges with this many tiles pending.
PendingAtPass == {0, 2}

Init == RoomInit /\ SoloInit /\ CallInit

soloWinner(playerScore, aiScore) ==
  IF playerScore > aiScore THEN "player"
  ELSE IF aiScore > playerScore THEN "ai"
  ELSE "tie"

passRecord(who) ==
  [player |-> who, word |-> <<>>, score |-> 0, tiles |-> <<>>, type |-> "pass"]

\* const { row, col, ...tile } = placed
Unplaced(t) ==
  [id |-> t.id, letter |-> t.letter, value |-> t.value, isBlank |-> t.isBlank]

\* doAiTurn(state): the callback handed to setTimeout reads state.board,
\* state.aiRack, state.isFirstMove and the difficulty of its closure
\* a doAiTurn that schedules nothing
doAiTurn_noTimer(state) == UNCHANGED timers

doAiTurn(state) ==
  timers' = Append(timers, [board |-> state.board, aiRack |-> state.aiRack,
                            isFirstMove |-> state.isFirstMove,
                            difficulty |-> difficulty])

startNewGame(deal) ==
  /\ gameState' = initializeGame(engineTileIdCounter, deal.deck, deal.front)
  /\ engineTileIdCounter' = engineTileIdCounter + Len(TableTiles(1, 0))
  /\ soloDealt' = deal.deck
  /\ pendingTiles' = <<>>
  /\ selectedTileId' = NoSelection
  /\ UNCHANGED <<difficulty, timers>>

setDifficulty(d) ==
  /\ difficulty' = d
  /\ UNCHANGED <<gameState, pendingTiles, selectedTileId, timers,
                 engineTileIdCounter, soloDealt>>

selectTile(tileId) ==
  /\ selectedTileId' = tileId
  /\ UNCHANGED <<gameState, pendingTiles, difficulty, timers,
                 engineTileIdCounter, soloDealt>>

placeTileOnBoard(row, col) ==
  /\ UNCHANGED <<difficulty, timers, engineTileIdCounter, soloDealt>>
  /\ IF \/ gameState = NoGame
        \/ selectedTileId = NoSelection
        \/ gameState.currentTurn # "player"
        \/ TileAt(gameState.board, <<row, col>>) # NoTile
        \/ \E i \in 1 .. Len(pendingTiles) :
             pendingTiles[i].row = row /\ pendingTiles[i].col = col
        \/ selectedTileId \notin TileIds(gameState.playerRack)
       THEN UNCHANGED <<gameState, pendingTiles, selectedTileId>>
       ELSE
         LET rack == gameState.playerRack
             at == SetMin({i \in 1 .. Len(rack) : rack[i].id = selectedTileId})
         IN /\ pendingTiles' = Append(pendingTiles, Placed(rack[at], row, col))
            /\ gameState' =
                 [gameState EXCEPT !.playerRack =
                    FilterIdx(rack, {i \in 1 .. Len(rack) :
                                       rack[i].id # selectedTileId}, 1)]
            /\ selectedTileId' = NoSelection

\* the state recallTiles' updater returns for prev
Recalled(prev) ==
  [prev EXCEPT !.playerRack =
     @ \o [i \in 1 .. Len(pendingTiles) |-> Unplaced(pendingTiles[i])]]

recallTiles ==
  /\ UNCHANGED <<difficulty, timers, engineTileIdCounter, soloDealt>>
  /\ IF gameState = NoGame
       THEN UNCHANGED <<gameState, pendingTiles, selectedTileId>>
       ELSE /\ gameState' = Recalled(gameState)
            /\ pendingTiles' = <<>>
            /\ selectedTileId' = NoSelection

\* the outcomes of the Fisher-Yates loop of shuffleRack: every order
RackShuffles(rack) ==
  {[i \in 1 .. Len(rack) |-> rack[p[i]]] : p \in Permutations(1 .. Len(rack))}

shuffleRack ==
  /\ UNCHANGED <<pendingTiles, selectedTileId, difficulty, timers,
                 engineTileIdCounter, soloDealt>>
  /\ IF gameState = NoGame
       THEN UNCHANGED gameState
       ELSE \E shuffled \in RackShuffles(gameState.playerRack) :
              gameState' = [gameState EXCEPT !.playerRack = shuffled]

\* newState of submitMove
submittedState(state, tiles, mainWord, score) ==
  LET tilesNeeded == SOLO_RACK_SIZE - Len(state.playerRack)
      d == engine_drawTiles(state.tileBag, Max(0, tilesNeeded))
      isGameOver ==
        Len(d.remaining) = 0 /\ Len(state.playerRack) + Len(d.drawn) = 0
      aiDeduction == calculateEndgameDeductions(state.aiRack)
      finalPlayerScore ==
        state.playerScore + score + (IF isGameOver THEN aiDeduction ELSE 0)
      finalAiScore ==
        state.aiScore - (IF isGameOver THEN aiDeduction ELSE 0)
  IN [state EXCEPT
        !.board = ApplyTiles(state.board, tiles),
        !.playerRack = state.playerRack \o d.drawn,
        !.tileBag = d.remaining,
        !.playerScore = finalPlayerScore,
        !.aiScore = finalAiScore,
        !.currentTurn = "ai",
        !.isFirstMove = FALSE,
        !.consecutivePasses = 0,
        !.gameOver = isGameOver,
        !.winner = IF isGameOver
                     THEN soloWinner(finalPlayerScore, finalAiScore)
                     ELSE Null,
        !.moveHistory =
           Append(@, [player |-> "player", word |-> mainWord,
                      score |-> score, tiles |-> tiles, type |-> "play"])]

\* the end of submitMove: the three setters and, unless the game is over,
\* the AI's turn
commitMove(newState) ==
  /\ gameState' = newState
  /\ pendingTiles' = <<>>
  /\ selectedTileId' = NoSelection
  /\ IF ~newState.gameOver THEN doAiTurn(newState) ELSE UNCHANGED timers

\* submitMove once the placement is valid: the dictionary check
submitWords(formedWords) ==
  IF \E i \in 1 .. Len(formedWords) : ~engine_isValidWord(formedWords[i].word)
    THEN \* return { success: false, error: '"..." is not a valid word' }
         UNCHANGED <<gameState, pendingTiles, selectedTileId, timers>>
    ELSE commitMove(
           submittedState(gameState, pendingTiles,
                          IF Len(formedWords) > 0 THEN formedWords[1].word
                                                  ELSE <<>>,
                          calculateMoveScore(gameState.board, pendingTiles)))

submitMove ==
  /\ UNCHANGED <<difficulty, engineTileIdCounter, soloDealt>>
  /\ IF gameState = NoGame \/ Len(pendingTiles) = 0
       THEN \* return { success: false, error: 'No tiles placed' }
            UNCHANGED <<gameState, pendingTiles, selectedTileId, timers>>
     ELSE IF ~engine_validatePlacement(gameState.board, pendingTiles,
                                       gameState.isFirstMove).valid
       THEN \* return { success: false, error: validation.error }
            UNCHANGED <<gameState, pendingTiles, selectedTileId, timers>>
     ELSE submitWords(engine_getFormedWords(gameState.board, pendingTiles))

solo_passTurn ==
  /\ UNCHANGED <<difficulty, engineTileIdCounter, soloDealt>>
  /\ IF gameState = NoGame
       THEN UNCHANGED <<gameState, pendingTiles, selectedTileId, timers>>
     ELSE
       LET newPasses == gameState.consecutivePasses + 1
           finalPlayerScore ==
             gameState.playerScore - calculateEndgameDeductions(gameState.playerRack)
           finalAiScore ==
             gameState.aiScore - calculateEndgameDeductions(gameState.aiRack)
           \* setGameState(newState) replaces what recallTiles' updater made
           newState ==
             [gameState EXCEPT
                !.currentTurn = "ai",
                !.consecutivePasses = newPasses,
                !.moveHistory = Append(@, passRecord("player"))]
       IN /\ pendingTiles' = <<>>
          /\ selectedTileId' = NoSelection
          /\ IF newPasses >= SOLO_MAX_PASSES
               THEN /\ gameState' =
                         [Recalled(gameState) EXCEPT
                            !.consecutivePasses = newPasses,
                            !.gameOver = TRUE,
                            !.playerScore = finalPlayerScore,
                            !.aiScore = finalAiScore,
                            !.winner = soloWinner(finalPlayerScore, finalAiScore),
                            !.moveHistory = Append(@, passRecord("player"))]
                    /\ UNCHANGED timers
               ELSE /\ gameState' = newState
                    /\ doAiTurn(newState)

solo_exchangeTiles(tileIds, k) ==
  /\ UNCHANGED <<difficulty, engineTileIdCounter, soloDealt>>
  /\ IF gameState = NoGame
       THEN UNCHANGED <<gameState, pendingTiles, selectedTileId, timers>>
     ELSE IF Len(gameState.tileBag) < SOLO_EXCHANGE_MIN_BAG
       THEN UNCHANGED <<gameState, pendingTiles, selectedTileId, timers>>
     ELSE
       LET rack == gameState.playerRack
           In == {i \in 1 .. Len(rack) : rack[i].id \in tileIds}
           tilesToExchange == FilterIdx(rack, In, 1)
           remainingRack == FilterIdx(rack, (1 .. Len(rack)) \ In, 1)
           d == engine_drawTiles(gameState.tileBag, Len(tilesToExchange))
           newBag == Reshuffle(d.remaining \o tilesToExchange, k)
           newState ==
             [gameState EXCEPT
                !.playerRack = remainingRack \o d.drawn,
                !.tileBag = newBag,
                !.currentTurn = "ai",
                !.consecutivePasses = 0,
                !.moveHistory =
                   Append(@, [player |-> "player", word |-> <<>>, score |-> 0,
                              tiles |-> <<>>, type |-> "exchange"])]
       IN /\ gameState' = newState
          /\ pendingTiles' = <<>>
          /\ selectedTileId' = NoSelection
          /\ doAiTurn(newState)

\* the updater of the callback when generateAIMove returned null
aiPass(prev) ==
  LET newPasses == prev.consecutivePasses + 1
      finalPlayerScore ==
        prev.playerScore - calculateEndgameDeductions(prev.playerRack)
      finalAiScore == prev.aiScore - calculateEndgameDeductions(prev.aiRack)
  IN IF newPasses >= SOLO_MAX_PASSES
       THEN [prev EXCEPT
               !.currentTurn = "player",
               !.consecutivePasses = newPasses,
               !.gameOver = TRUE,
               !.playerScore = finalPlayerScore,
               !.aiScore = finalAiScore,
               !.winner = soloWinner(finalPlayerScore, finalAiScore),
               !.moveHistory = Append(@, passRecord("ai"))]
       ELSE [prev EXCEPT
               !.currentTurn = "player",
               !.consecutivePasses = newPasses,
               !.moveHistory = Append(@, passRecord("ai"))]

\* the updater of the callback for the move generateAIMove returned
aiPlayed(prev, aiMove, mainWord, score) ==
  LET tilesNeeded == SOLO_RACK_SIZE - (Len(prev.aiRack) - Len(aiMove))
      d == engine_drawTiles(prev.tileBag, Max(0, tilesNeeded))
      newRack ==
        FilterIdx(prev.aiRack,
                  {i \in 1 .. Len(prev.aiRack) :
                     prev.aiRack[i].id \notin TileIds(aiMove)}, 1)
      isGameOver == Len(d.remaining) = 0 /\ Len(newRack) = 0
      playerDeduction == calculateEndgameDeductions(prev.playerRack)
      finalPlayerScore ==
        prev.playerScore - (IF isGameOver THEN playerDeduction ELSE 0)
      finalAiScore ==
        prev.aiScore + score + (IF isGameOver THEN playerDeduction ELSE 0)
  IN [prev EXCEPT
        !.board = ApplyTiles(prev.board, aiMove),
        !.aiRack = newRack \o d.drawn,
        !.tileBag = d.remaining,
        !.aiScore = finalAiScore,
        !.playerScore = finalPlayerScore,
        !.currentTurn = "player",
        !.isFirstMove = FALSE,
        !.consecutivePasses = 0,
        !.gameOver = isGameOver,
        !.winner = IF isGameOver
                     THEN soloWinner(finalPlayerScore, finalAiScore)
                     ELSE Null,
        !.moveHistory =
           Append(@, [player |-> "ai", word |-> mainWord, score |-> score,
                      tiles |-> aiMove, type |-> "play"])]

\* words[0]?.word || ''
mainWordOf(words) == IF Len(words) > 0 THEN words[1].word ELSE <<>>

\* the score and the main word of the move, then the updater
aiPlay(prev, aiMove) ==
  aiPlayed(prev, aiMove, mainWordOf(engine_getFormedWords(prev.board, aiMove)),
           calculateMoveScore(prev.board, aiMove))

\* the callback once generateAIMove has collected and sorted the moves
aiMoved(t, moves) ==
  IF gameState = NoGame THEN UNCHANGED gameState
  ELSE IF Len(moves) = 0 THEN gameState' = aiPass(gameState)
  ELSE \E k \in moveIndexes(Len(moves), t.difficulty) :
         gameState' = aiPlay(gameState, moves[k + 1].tiles)

\* the setTimeout callback of doAiTurn, for the i-th pending timer
aiTimer(i) ==
  /\ timers' = RemoveAt(timers, i)
  /\ UNCHANGED <<pendingTiles, selectedTileId, difficulty,
                 engineTileIdCounter, soloDealt>>
  /\ aiMoved(timers[i],
             possibleMoves(timers[i].board, timers[i].aiRack,
                           timers[i].isFirstMove))

\* the cells the player may tap: up to the first free cell of SoloCells
TapCells ==
  LET Free == {i \in 1 .. Len(SoloCells) :
                 /\ gameState # NoGame
                 /\ TileAt(gameState.board, SoloCells[i]) = NoTile
                 /\ \A j \in 1 .. Len(pendingTiles) :
                      <<pendingTiles[j].row, pendingTiles[j].col>> # SoloCells[i]}
      reach == IF Free = {} THEN Len(SoloCells) ELSE SetMin(Free)
  IN {SoloCells[i] : i \in 1 .. reach}

RackIdsAt(indexes) ==
  IF gameState = NoGame THEN {}
  ELSE {gameState.playerRack[i].id :
          i \in indexes \cap (1 .. Len(gameState.playerRack))}

\* The player acts while no callback of the AI is pending (the screen
\* disables its buttons during the AI's turn), and submits, passes or
\* exchanges while the history is below the bound.
Idle == gameState # NoGame /\ timers = <<>>
MayMove == Idle /\ Len(gameState.moveHistory) < MaxSoloMoves

\* The application runs while the server holds no room.
SoloNext ==
  \/ \E deal \in IF gameState = NoGame THEN SoloDeals ELSE Rematches :
       /\ RoomInit
       /\ IF gameState = NoGame THEN TRUE ELSE gameState.gameOver
       /\ timers = <<>>
       /\ engineTileIdCounter < MaxGames * Len(TableTiles(1, 0))
       /\ startNewGame(deal)
       /\ UNCHANGED <<roomVars, callVars>>
  \/ \E d \in Difficulties :
       RoomInit /\ gameState = NoGame /\ setDifficulty(d) /\ UNCHANGED <<roomVars, callVars>>
  \/ \E tileId \in RackIdsAt(SoloPickIndexes) :
       RoomInit /\ Idle /\ selectTile(tileId) /\ UNCHANGED <<roomVars, callVars>>
  \/ \E cell \in TapCells :
       /\ RoomInit
       /\ Idle
       /\ placeTileOnBoard(cell[1], cell[2])
       /\ UNCHANGED <<roomVars, callVars>>
  \/ /\ RoomInit
     /\ Idle
     /\ pendingTiles # <<>>
     /\ gameState.playerRack = <<>>
     /\ recallTiles
     /\ UNCHANGED <<roomVars, callVars>>
  \/ /\ RoomInit
     /\ Idle
     /\ Len(gameState.playerRack) \in ShuffleSizes
     /\ shuffleRack
     /\ UNCHANGED <<roomVars, callVars>>
  \/ RoomInit /\ MayMove /\ submitMove /\ UNCHANGED <<roomVars, callVars>>
  \/ /\ RoomInit
     /\ MayMove
     /\ Len(pendingTiles) \in PendingAtPass
     /\ solo_passTurn
     /\ UNCHANGED <<roomVars, callVars>>
  \/ \E tileIds \in SUBSET RackIdsAt(SoloSwapIndexes), k \in Reshuffles :
       /\ RoomInit
       /\ MayMove
       /\ Len(pendingTiles) \in PendingAtPass
       /\ CountType(gameState.moveHistory, "exchange") < MaxSoloSwaps
       /\ solo_exchangeTiles(tileIds, k)
       /\ UNCHANGED <<roomVars, callVars>>
  \/ \E i \in 1 .. Len(timers) : RoomInit /\ aiTimer(i) /\ UNCHANGED <<roomVars, callVars>>

\* The functions of the context called in any order, also while a
\* callback of the AI is pending: at most MaxPending callbacks are
\* scheduled, in a game of at most MaxCallMoves records.
MaxPending == 2
MaxCallMoves == 3
\* startNewGame is called before a game and again, at most MaxGames
\* games in all, while a callback of the game in progress is pending.

MayCall ==
  /\ gameState # NoGame
  /\ Len(timers) < MaxPending
  /\ Len(gameState.moveHistory) < MaxCallMoves

CallsNext ==
  \/ \E deal \in SoloDeals :
       gameState = NoGame /\ startNewGame(deal) /\ UNCHANGED <<roomVars, callVars>>
  \/ \E deal \in Rematches :
       /\ gameState # NoGame
       /\ timers # <<>>
       /\ engineTileIdCounter < MaxGames * Len(TableTiles(1, 0))
       /\ startNewGame(deal)
       /\ UNCHANGED <<roomVars, callVars>>
  \/ \E tileId \in RackIdsAt(SoloPickIndexes) :
       selectTile(tileId) /\ UNCHANGED <<roomVars, callVars>>
  \/ \E cell \in TapCells :
       placeTileOnBoard(cell[1], cell[2]) /\ UNCHANGED <<roomVars, callVars>>
  \/ MayCall /\ submitMove /\ UNCHANGED <<roomVars, callVars>>
  \/ MayCall /\ solo_passTurn /\ UNCHANGED <<roomVars, callVars>>
  \/ \E tileIds \in SUBSET RackIdsAt(SoloSwapIndexes), k \in Reshuffles :
       /\ MayCall
       /\ CountType(gameState.moveHistory, "exchange") < MaxSoloSwaps
       /\ solo_exchangeTiles(tileIds, k)
       /\ UNCHANGED <<roomVars, callVars>>
  \/ \E i \in 1 .. Len(timers) : aiTimer(i) /\ UNCHANGED <<roomVars, callVars>>

\* what submitMove returns: { success, error } or { success, score }
submitMoveReturn ==
  IF gameState = NoGame \/ Len(pendingTiles) = 0
    THEN [success |-> FALSE, error |-> "No tiles placed"]
  ELSE IF ~engine_validatePlacement(gameState.board, pendingTiles,
                                    gameState.isFirstMove).valid
    THEN [success |-> FALSE,
          error |-> engine_validatePlacement(gameState.board, pendingTiles,
                                             gameState.isFirstMove).error]
  ELSE LET formedWords == engine_getFormedWords(gameState.board, pendingTiles)
           InvalidIdx == {i \in 1 .. Len(formedWords) :
                            ~engine_isValidWord(formedWords[i].word)}
       IN IF InvalidIdx # {}
            THEN [success |-> FALSE, error |-> "is not a valid word",
                  word |-> formedWords[SetMin(InvalidIdx)].word]
            ELSE [success |-> TRUE,
                  score |-> calculateMoveScore(gameState.board, pendingTiles)]

\* what submitMove works on: the pending tiles and the game as it finds it
SubmitArguments ==
  [game |-> gameState,
   board |-> IF gameState = NoGame THEN << >> ELSE gameState.board,
   tiles |-> pendingTiles,
   isFirstMove |-> IF gameState = NoGame THEN TRUE ELSE gameState.isFirstMove]

\* Turn actions with their payloads on record.  Rooms are dealt TurnDecks
\* tiles (two racks and a bag of 1, or of 7); a place_tiles message names
\* up to 2 different tiles at the positions TurnPickIndexes of the
\* sender's rack, on different cells of one row of TurnCells and in either
\* order; the history is kept below MaxTurnMoves records.  In the
\* single-player game the player places tiles and submits them, with the
\* pending tiles and what submitMove returns on record, and the AI answers.
TurnDecks == {15, 21}
TurnPickIndexes == {1, 2, 3}
TurnCells == {<<7, 7>>, <<7, 8>>, <<8, 7>>, <<8, 8>>}
MaxTurnMoves == 2
\* for the first word the player places the first tile of the rack on the
\* cells of TapCells, afterwards one of the first three on TurnTapCells,
\* and submits up to the record after MaxTurnMoves
TurnTapCells == {<<8, 7>>, <<8, 8>>}
FirstWordDue == gameState = NoGame \/ gameState.isFirstMove

\* the payloads of place_tiles: up to two tiles of one row, taken from
\* different positions of the rack; two tiles may name the same cell
TurnPicks(c) ==
  {picks \in UNION {[1 .. n -> (TurnPickIndexes \cap (1 .. Len(SenderRack(c))))
                                 \X TurnCells] : n \in 0 .. 2} :
     \A i, j \in 1 .. Len(picks) :
       /\ picks[i][2][1] = picks[j][2][1]
       /\ i # j => picks[i][1] # picks[j][1]}

\* the payloads of exchange_tiles: ids of the rack tiles at the positions
\* TurnSwapIndexes, with or without an id that is in no rack
TurnSwapIndexes == {1, 3}
TurnSwapIds(c) ==
  SUBSET ({SenderRack(c)[i].id : i \in TurnSwapIndexes \cap (1 .. Len(SenderRack(c)))}
          \cup {Foreign.id})

\* rooms.get(currentRoomCode) when the handler starts
NoRoom == [none |-> TRUE]
FoundRoom(c) ==
  IF conn[c].currentRoomCode \in DOMAIN rooms
    THEN rooms[conn[c].currentRoomCode] ELSE NoRoom

\* what place_tiles works on: msg.tiles, the room as the handler finds it,
\* and the board and isFirstMove it hands to validatePlacement
PlaceArguments(c, placedTiles) ==
  [room |-> FoundRoom(c),
   board |-> IF FoundRoom(c) = NoRoom THEN << >> ELSE FoundRoom(c).board,
   tiles |-> placedTiles,
   isFirstMove |-> IF FoundRoom(c) = NoRoom THEN TRUE ELSE FoundRoom(c).isFirstMove]

\* what exchange_tiles works on: msg.tileIds and the room as it finds it
ExchangeArguments(c, tileIds) == [room |-> FoundRoom(c), tileIds |-> tileIds]

TurnsNext ==
  \/ \E c \in Conns, deck \in TurnDecks, front \in Fronts :
       /\ SoloInit
       /\ CreateRoom(c, NameOf[c], deck, front)
       /\ placement' = NoCall
       /\ UNCHANGED <<soloVars, verdict>>
  \/ \E c \in Conns, code \in Codes :
       /\ SoloInit
       /\ JoinRoom(c, code, NameOf[c])
       /\ placement' = NoCall
       /\ UNCHANGED <<soloVars, verdict>>
  \/ \E c \in Conns : \E picks \in TurnPicks(c) :
       /\ SoloInit
       /\ WithinBound(c, "play", MaxTurnMoves, MaxTurnMoves)
       /\ PlaceTiles(c, ClientTiles(c, picks, "honest"))
       /\ placement' = PlaceArguments(c, ClientTiles(c, picks, "honest"))
       /\ UNCHANGED <<soloVars, verdict>>
  \/ \E c \in Conns :
       /\ SoloInit
       /\ WithinBound(c, "pass", MaxTurnMoves, MaxTurnMoves)
       /\ PassTurn(c)
       /\ placement' = NoCall
       /\ UNCHANGED <<soloVars, verdict>>
  \/ \E c \in Conns : \E tileIds \in TurnSwapIds(c), k \in Reshuffles :
       /\ SoloInit
       /\ WithinBound(c, "exchange", MaxTurnMoves, MaxTurnMoves)
       /\ ExchangeTiles(c, tileIds, k)
       /\ placement' = ExchangeArguments(c, tileIds)
       /\ UNCHANGED <<soloVars, verdict>>
  \/ \E deal \in SoloDeals :
       /\ RoomInit
       /\ gameState = NoGame
       /\ startNewGame(deal)
       /\ placement' = NoCall /\ verdict' = NoCall
       /\ UNCHANGED roomVars
  \/ \E tileId \in RackIdsAt(IF FirstWordDue THEN SoloPickIndexes
                                                  ELSE TurnPickIndexes) :
       /\ RoomInit
       /\ Idle
       /\ selectTile(tileId)
       /\ placement' = NoCall /\ verdict' = NoCall
       /\ UNCHANGED roomVars
  \/ \E cell \in IF FirstWordDue THEN TapCells ELSE TurnTapCells :
       /\ RoomInit
       /\ Idle
       /\ placeTileOnBoard(cell[1], cell[2])
       /\ placement' = NoCall /\ verdict' = NoCall
       /\ UNCHANGED roomVars
  \/ /\ RoomInit
     /\ Idle
     /\ Len(gameState.moveHistory) <= MaxTurnMoves
     /\ submitMove
     /\ placement' = SubmitArguments
     /\ verdict' = submitMoveReturn
     /\ UNCHANGED roomVars
  \/ \E i \in 1 .. Len(timers) :
       /\ RoomInit
       /\ aiTimer(i)
       /\ placement' = NoCall /\ verdict' = NoCall
       /\ UNCHANGED roomVars

\* validatePlacement called on its own: boards of ValidateBoards, up to
\* MaxPlaced tiles on cells of ValidateCells (two of them off the board),
\* first move or not.
MaxPlaced == 3
ValidateCells ==
  {<<7, 6>>, <<7, 7>>, <<7, 8>>, <<7, 9>>, <<7, 10>>,
   <<6, 7>>, <<8, 7>>, <<9, 7>>, <<8, 8>>, <<7, 15>>, <<-1, 7>>}
ValidateBoards ==
  {{}, {<<7, 7>>}, {<<7, 8>>}, {<<7, 7>>, <<7, 8>>}, {<<8, 7>>}}

\* the board with a tile on each cell of cells
BoardOf(cells) ==
  [p \in cells |-> [id |-> 0, letter |-> "A", value |-> 1, isBlank |-> FALSE]]

\* tiles on the cells of a sequence of cells
TilesOn(cells) ==
  [i \in 1 .. Len(cells) |->
     [id |-> i, letter |-> "E", value |-> 1, isBlank |-> FALSE,
      row |-> cells[i][1], col |-> cells[i][2]]]

ValidateInit ==
  /\ RoomInit
  /\ SoloInit
  /\ verdict = NoCall
  /\ placement \in
       {[board |-> BoardOf(b), tiles |-> TilesOn(cells), isFirstMove |-> f] :
          b \in ValidateBoards,
          cells \in UNION {[1 .. n -> ValidateCells] : n \in 0 .. MaxPlaced},
          f \in BOOLEAN}

ValidateNext ==
  \/ /\ verdict = NoCall
     /\ verdict' = [by |-> "server",
                    result |-> validatePlacement(placement.board, placement.tiles,
                                                 placement.isFirstMove)]
     /\ UNCHANGED <<roomVars, soloVars, placement>>
  \/ /\ verdict = NoCall
     /\ verdict' = [by |-> "engine",
                    result |-> engine_validatePlacement(placement.board,
                                                        placement.tiles,
                                                        placement.isFirstMove)]
     /\ UNCHANGED <<roomVars, soloVars, placement>>

\* calculateScore and calculateMoveScore called on their own, as the
\* handlers call them: on a list of tiles that validatePlacement accepted.
\* Boards of ScoreBoards, lists of up to MaxPlaced tiles on cells of
\* ScoreCells in every order, and the lines of ScoreLines.
ScoreCells ==
  {<<7, 6>>, <<7, 7>>, <<7, 8>>, <<6, 7>>, <<8, 7>>, <<6, 6>>, <<5, 6>>, <<8, 8>>}
ScoreBoards ==
  {{}, {<<7, 7>>, <<7, 8>>}, {<<7, 6>>, <<7, 7>>, <<7, 8>>, <<6, 6>>}}
ScoreLines ==
  {[i \in 1 .. 7 |-> <<7, i>>], [i \in 1 .. 6 |-> <<7, i + 1>>],
   [i \in 1 .. 7 |-> <<7, i - 1>>], [i \in 1 .. 7 |-> <<i - 1, 7>>]}

\* the tiles a list is made of, in the order of the list
ScoreRack ==
  <<[id |-> 1, letter |-> "C", value |-> 3, isBlank |-> FALSE],
    [id |-> 2, letter |-> "A", value |-> 1, isBlank |-> FALSE],
    [id |-> 3, letter |-> "T", value |-> 1, isBlank |-> FALSE],
    [id |-> 4, letter |-> "D", value |-> 2, isBlank |-> FALSE],
    [id |-> 5, letter |-> "O", value |-> 1, isBlank |-> FALSE],
    [id |-> 6, letter |-> "G", value |-> 2, isBlank |-> FALSE],
    [id |-> 7, letter |-> "", value |-> 0, isBlank |-> TRUE]>>

\* the board with a tile of value 4 on each cell of cells
ScoreBoardOf(cells) ==
  [p \in cells |-> [id |-> 0, letter |-> "H", value |-> 4, isBlank |-> FALSE]]

\* the tiles of ScoreRack on the cells of a sequence of cells
ScoreTilesOn(cells) ==
  [i \in 1 .. Len(cells) |->
     [id |-> ScoreRack[i].id, letter |-> ScoreRack[i].letter,
      value |-> ScoreRack[i].value, isBlank |-> ScoreRack[i].isBlank,
      row |-> cells[i][1], col |-> cells[i][2]]]

\* the orders in which a list of n tiles is handed over: all of them for
\* a short list, the given and the reversed one for a line
Orders(n) ==
  IF n <= MaxPlaced
    THEN {o \in [1 .. n -> 1 .. n] : \A i, j \in 1 .. n : o[i] = o[j] => i = j}
    ELSE {[i \in 1 .. n |-> i], [i \in 1 .. n |-> n + 1 - i]}

InOrder(tiles, order) == [i \in 1 .. Len(tiles) |-> tiles[order[i]]]

ScoreInit ==
  /\ RoomInit
  /\ SoloInit
  /\ verdict = NoCall
  /\ placement \in
       {[board |-> ScoreBoardOf(b), tiles |-> ScoreTilesOn(cells), isFirstMove |-> f] :
          b \in ScoreBoards,
          cells \in UNION {[1 .. n -> ScoreCells] : n \in 1 .. MaxPlaced}
                      \cup ScoreLines,
          f \in BOOLEAN}

ScoreNext ==
  \/ \E order \in Orders(Len(placement.tiles)) :
       /\ verdict = NoCall
       /\ validatePlacement(placement.board, InOrder(placement.tiles, order),
                            placement.isFirstMove).valid
       /\ verdict' = [by |-> "server", order |-> order,
                      score |-> calculateScore(placement.board,
                                               InOrder(placement.tiles, order))]
       /\ UNCHANGED <<roomVars, soloVars, placement>>
  \/ \E order \in Orders(Len(placement.tiles)) :
       /\ verdict = NoCall
       /\ engine_validatePlacement(placement.board, InOrder(placement.tiles, order),
                                   placement.isFirstMove).valid
       /\ verdict' = [by |-> "engine", order |-> order,
                      score |-> calculateMoveScore(placement.board,
                                                   InOrder(placement.tiles, order))]
       /\ UNCHANGED <<roomVars, soloVars, placement>>

\* createTileBag called on its own, MaxBags times by the server or by the
\* engine, the shuffle drawing by one of RandomDraws: at i it draws
\* (a * i + b) mod (i + 1), one of the values floor(random() * (i + 1))
\* can take.  The third way is the shuffle outcome the rooms and games of
\* the model are dealt from.
MaxBags == 2
DrawFactors == {0, 3}
DrawShifts == {0, 1}
RandomDraws ==
  {[i \in 1 .. 99 |-> (a * i + b) % (i + 1)] : a \in DrawFactors, b \in DrawShifts}

BagsSoFar == IF verdict = NoCall THEN <<>> ELSE verdict.bags

\* the program that made each of them
MadeBy == IF verdict = NoCall THEN <<>> ELSE verdict.by

BagInit == RoomInit /\ SoloInit /\ CallInit

BagNext ==
  \/ \E draw \in RandomDraws :
       /\ tileIdCounter < MaxBags * Len(TableTiles(1, 0))
       /\ verdict' = [bags |-> Append(BagsSoFar,
                                      shuffleArray(TableTiles(1, tileIdCounter), draw)),
                     by |-> Append(MadeBy, "server")]
       /\ tileIdCounter' = tileIdCounter + Len(TableTiles(1, 0))
       /\ placement' = [draw |-> draw]
       /\ UNCHANGED <<rooms, conn, sent, threw, handled, dealt, clockVars, soloVars>>
  \/ \E draw \in RandomDraws :
       /\ engineTileIdCounter < MaxBags * Len(TableTiles(1, 0))
       /\ verdict' = [bags |-> Append(BagsSoFar,
                                      shuffleArray(TableTiles(1, engineTileIdCounter),
                                                   draw)),
                     by |-> Append(MadeBy, "engine")]
       /\ engineTileIdCounter' = engineTileIdCounter + Len(TableTiles(1, 0))
       /\ placement' = [draw |-> draw]
       /\ UNCHANGED <<roomVars, gameState, pendingTiles, selectedTileId, difficulty,
                      timers, soloDealt>>
  \/ \E front \in Fronts \cup {deal.front : deal \in SoloDeals} :
       /\ tileIdCounter < MaxBags * Len(TableTiles(1, 0))
       /\ verdict' = [bags |-> Append(BagsSoFar, createTileBag(tileIdCounter, front)),
                     by |-> Append(MadeBy, "server")]
       /\ tileIdCounter' = tileIdCounter + Len(TableTiles(1, 0))
       /\ placement' = [front |-> front]
       /\ UNCHANGED <<rooms, conn, sent, threw, handled, dealt, clockVars, soloVars>>

\* generateAIMove and the callback of doAiTurn on their own: the game is
\* one in which the player has opened with the first AiOpenings tiles of
\* the rack on row 7 (0: the player passed), with one callback pending.
\* The decks hold the player's rack, the AI's rack and three more tiles.
AiPlayerLetters == <<"C", "A", "T", "O", "N", "E", "S">>
AiRackLetters ==
  {<<"S", "E", "A", "T", "D", "O", "N">>,
   <<"Q", "Z", "X", "J", "V", "K", "W">>,
   <<"", "E", "A", "R", "S", "I", "T">>,
   <<"O", "X", "E", "N", "I", "T", "S">>,
   <<"H", "A", "T", "E", "D", "O", "G">>}
AiBagLetters == <<"I", "O", "U">>
AiOpenings == {0, 2, 3}
\* the records of the move history up to which the player passes
MaxAiMoves == 6

\* the game after the player's opening of n tiles
AiGame(rackLetters, n) ==
  LET front == AiPlayerLetters \o rackLetters \o AiBagLetters
      g0 == initializeGame(0, Len(front), front)
      tiles == [k \in 1 .. n |-> Placed(g0.playerRack[k], 7, 7 - (n \div 2) + (k - 1))]
      g1 == [g0 EXCEPT !.playerRack = SubSeq(@, n + 1, Len(@))]
  IN IF n = 0
       THEN [g0 EXCEPT !.currentTurn = "ai",
                       !.consecutivePasses = 1,
                       !.moveHistory = Append(@, passRecord("player"))]
       ELSE submittedState(g1, tiles,
                           mainWordOf(engine_getFormedWords(g0.board, tiles)),
                           calculateMoveScore(g0.board, tiles))

AiInit ==
  /\ RoomInit
  /\ CallInit
  /\ pendingTiles = <<>>
  /\ selectedTileId = NoSelection
  /\ engineTileIdCounter = Len(TableTiles(1, 0))
  /\ soloDealt = Len(AiPlayerLetters) + Len(AiPlayerLetters) + Len(AiBagLetters)
  /\ difficulty \in Difficulties
  /\ \E rackLetters \in AiRackLetters, n \in AiOpenings :
       /\ gameState = AiGame(rackLetters, n)
       /\ timers = <<[board |-> gameState.board, aiRack |-> gameState.aiRack,
                      isFirstMove |-> gameState.isFirstMove,
                      difficulty |-> difficulty]>>

\* possibleMoves[moveIndex]?.tiles || null, null as << >>
moveAt(moves, moveIndex) ==
  IF Len(moves) = 0 \/ moveIndex + 1 \notin DOMAIN moves
    THEN <<>>
    ELSE moves[moveIndex + 1].tiles

\* what generateAIMove returns for the random outcome that makes moveIndex
generateAIMove(board, aiRack, isFirstMove, moveIndex) ==
  moveAt(possibleMoves(board, aiRack, isFirstMove), moveIndex)

\* the callback runs; its arguments, the index drawn, the tiles returned
\* and the scores of the sorted candidates are recorded
AiNext ==
  \/ /\ timers # <<>>
     /\ possibleMoves(timers[1].board, timers[1].aiRack, timers[1].isFirstMove) = <<>>
     /\ aiTimer(1)
     /\ placement' = timers[1]
     /\ verdict' = [index |-> -1,
                    tiles |-> generateAIMove(timers[1].board, timers[1].aiRack,
                                             timers[1].isFirstMove, 0),
                    scores |-> <<>>]
     /\ UNCHANGED roomVars
  \/ /\ timers # <<>>
     /\ \E moves \in {possibleMoves(timers[1].board, timers[1].aiRack,
                                     timers[1].isFirstMove)} :
          \E k \in moveIndexes(Len(moves), timers[1].difficulty) :
            /\ moves # <<>>
            /\ timers' = RemoveAt(timers, 1)
            /\ gameState' = aiPlay(gameState, moveAt(moves, k))
            /\ placement' = timers[1]
            /\ verdict' = [index |-> k,
                           tiles |-> moveAt(moves, k),
                           scores |-> [i \in 1 .. Len(moves) |-> moves[i].score]]
     /\ UNCHANGED <<pendingTiles, selectedTileId, difficulty,
                    engineTileIdCounter, soloDealt>>
     /\ UNCHANGED roomVars
  \/ /\ Idle
     /\ Len(gameState.moveHistory) < MaxAiMoves
     /\ solo_passTurn
     /\ placement' = NoCall
     /\ verdict' = NoCall
     /\ UNCHANGED roomVars


(***************************************************************************)
(* Specifications                                                          *)
(***************************************************************************)

\* the room coordinator under arbitrary client messages
Spec == Init /\ [][RoomNext]_vars

\* the room coordinator under honest clients, to longer games
SpecLong == Init /\ [][LongNext]_vars

\* the single-player game
SpecSolo == Init /\ [][SoloNext]_vars

\* a pending callback of doAiTurn runs
AiCallback ==
  \E i \in 1 .. Len(timers) : RoomInit /\ aiTimer(i) /\ UNCHANGED <<roomVars, callVars>>

\* Every setTimeout of doAiTurn resolves: no handle is kept and nothing
\* clears the timer.  This is weak fairness of AiCallback, written out.
\* The callback is enabled exactly while a timer is pending (aiMoved has
\* a branch for every case and moveIndexes is not empty for a list that
\* is not empty), so a behaviour is fair when no timer is pending
\* infinitely often or callbacks run infinitely often.
AiCallbackFair == []<>(timers = <<>>) \/ []<><<AiCallback>>_vars

\* the single-player game in which every scheduled callback runs
SpecSoloLive == Init /\ [][SoloNext]_vars /\ AiCallbackFair

\* The two programs share no state: a run of the honest room coordinator,
\* or a run of the single-player game.
PlayNext == LongNext \/ SoloNext

SpecPlay == Init /\ [][PlayNext]_vars

\* the room coordinator with closing and reconnecting connections
SpecLife == Init /\ [][LifeNext]_vars

\* the room coordinator with ageing rooms
SpecSweep == Init /\ [][SweepNext]_vars

\* the single-player game without the screen's gating of its buttons
SpecCalls == Init /\ [][CallsNext]_vars

\* validatePlacement of the server and of the engine on bounded inputs
SpecValidate == ValidateInit /\ [][ValidateNext]_vars



\* the room coordinator and the single-player game, with the payload of
\* each turn action on record
SpecTurns == Init /\ [][TurnsNext]_vars

\* calculateScore and calculateMoveScore on accepted lists of tiles
SpecScore == ScoreInit /\ [][ScoreNext]_vars

\* createTileBag called on its own
SpecBag == BagInit /\ [][BagNext]_vars

\* generateAIMove and the callback of doAiTurn on games after the opening
SpecAI == AiInit /\ [][AiNext]_vars

(***************************************************************************)
(* Properties of the room coordinator                                      *)
(***************************************************************************)

RECURSIVE RackPoints(_, _)
\* total point value of rack[i .. ]
RackPoints(rack, i) ==
  IF i > Len(rack) THEN 0 ELSE rack[i].value + RackPoints(rack, i + 1)

\* tiles in the bag, in the racks and on the board of a room
RoomTiles(room) ==
  Len(room.tileBag)
  + (IF Len(room.players) >= 1 THEN Len(room.players[1].rack) ELSE 0)
  + (IF Len(room.players) >= 2 THEN Len(room.players[2].rack) ELSE 0)
  + Cardinality(DOMAIN room.board)

\* the game state of a room that turn actions work on
GameFields(room) ==
  [board |-> room.board,
   racks |-> [i \in DOMAIN room.players |-> room.players[i].rack],
   scores |-> [i \in DOMAIN room.players |-> room.players[i].score],
   tileBag |-> room.tileBag,
   currentTurnIndex |-> room.currentTurnIndex,
   isFirstMove |-> room.isFirstMove,
   consecutivePasses |-> room.consecutivePasses,
   gameOver |-> room.gameOver,
   winner |-> room.winner,
   moveHistory |-> room.moveHistory]

\* the room a connection's handler works on, when there is one
HasRoom(c) == conn[c].currentRoomCode \in DOMAIN rooms
RoomOf(c) == rooms[conn[c].currentRoomCode]
HoldsTurn(c) ==
  findIndex(RoomOf(c).players, conn[c].playerId) = RoomOf(c).currentTurnIndex

NotYourTurn == [type |-> "error", message |-> "Not your turn"]

\* C1: in every reachable state of a room the tiles in the bag, in both
\* racks and on the board number exactly the tiles the game was dealt
\* (100 in the program).
C1_TileConservation ==
  \A code \in DOMAIN rooms : RoomTiles(rooms[code]) = dealt[code]

\* C2 as claimed: whenever a place_tiles is processed for a started room
\* while its sender does not hold the turn, exactly the error "Not your
\* turn" goes to the sender and the room is unchanged.
C2_OutOfTurnAlwaysReported ==
  [][\A c \in Conns :
       (/\ handled'.type = "place_tiles" /\ handled'.ws = c
        /\ HasRoom(c) /\ RoomOf(c).started /\ ~HoldsTurn(c))
       => (/\ sent' = <<[ws |-> c, data |-> NotYourTurn]>>
           /\ rooms' = rooms)]_roomVars

\* C2 amended: the same while the game of the room is not over.
C2_OutOfTurnReportedWhileInProgress ==
  [][\A c \in Conns :
       (/\ handled'.type = "place_tiles" /\ handled'.ws = c
        /\ HasRoom(c) /\ RoomOf(c).started /\ ~RoomOf(c).gameOver
        /\ ~HoldsTurn(c))
       => (/\ sent' = <<[ws |-> c, data |-> NotYourTurn]>>
           /\ rooms' = rooms)]_roomVars

\* an out-of-turn place_tiles was answered in a started room in progress
C2_Witness ==
  /\ handled.type = "place_tiles"
  /\ sent = <<[ws |-> handled.ws, data |-> NotYourTurn]>>
  /\ HasRoom(handled.ws) /\ RoomOf(handled.ws).started
  /\ ~RoomOf(handled.ws).gameOver
  /\ Len(RoomOf(handled.ws).moveHistory) >= 1

IsPlaceRejection(m) ==
  \/ m.data.type = "move_rejected"
  \/ m.data.type = "error" /\ m.data.message = "Invalid tile"

\* C3: a place_tiles answered by a rejection (unowned tile id, failed
\* placement validation, word not in the lexicon) leaves every room as it
\* was, and the rejection is the only message sent and goes to the sender.
C3_RejectionChangesNothing ==
  [][(/\ handled'.type = "place_tiles"
      /\ \E i \in DOMAIN sent' : IsPlaceRejection(sent'[i]))
     => (/\ rooms' = rooms
         /\ Len(sent') = 1
         /\ sent'[1].ws = handled'.ws)]_roomVars

\* a place_tiles was rejected for a word that is not in the lexicon, after
\* an earlier play
C3_Witness ==
  /\ handled.type = "place_tiles"
  /\ Len(sent) = 1
  /\ sent[1].data.type = "move_rejected"
  /\ sent[1].data.word # <<>>
  /\ HasRoom(handled.ws) /\ ~RoomOf(handled.ws).isFirstMove

\* C4: every tile on a room's board is a tile of the room's bag with the
\* letter and the value it was created with (a blank keeps value 0 and
\* may carry any letter).
C4_BoardTilesAreServerTiles ==
  \A code \in DOMAIN rooms :
    \A p \in DOMAIN rooms[code].board :
      LET t == rooms[code].board[p]
          made == TableTiles(1, rooms[code].players[1].id)
      IN \E k \in 1 .. Len(made) :
           /\ made[k].id = t.id
           /\ made[k].value = t.value
           /\ (made[k].isBlank \/ made[k].letter = t.letter)

LastFourArePasses(history) ==
  /\ Len(history) >= 4
  /\ \A i \in Len(history) - 3 .. Len(history) : history[i].type = "pass"

\* C5: a history ending in four passes means the game is over, and once a
\* room's game is over no step changes its board, racks, bag, scores,
\* winner, history or the gameOver flag.
C5_GameOverIsFinal ==
  [][\A code \in DOMAIN rooms' :
       /\ LastFourArePasses(rooms'[code].moveHistory) => rooms'[code].gameOver
       /\ (code \in DOMAIN rooms /\ rooms[code].gameOver)
          => GameFields(rooms'[code]) = GameFields(rooms[code])]_roomVars

\* a turn action was processed after four passes had ended the game
C5_Witness ==
  /\ handled.type \in {"place_tiles", "pass_turn", "exchange_tiles"}
  /\ sent = <<>>
  /\ HasRoom(handled.ws)
  /\ RoomOf(handled.ws).gameOver
  /\ LastFourArePasses(RoomOf(handled.ws).moveHistory)

\* C9: the pass that brings the counter to four takes from each player
\* the value of that player's own rack, ends the game and names as winner
\* the player with the strictly higher score, "Tie" on equal scores; and a
\* room has a winner exactly when its game is over.
C9_FourPassSettlement ==
  [][\A code \in DOMAIN rooms' :
       LET new == rooms'[code] IN
       /\ (new.winner # Null) <=> new.gameOver
       /\ (/\ code \in DOMAIN rooms
           /\ handled'.type = "pass_turn"
           /\ rooms[code].consecutivePasses = 3
           /\ new.consecutivePasses = 4)
          => LET old == rooms[code]
                 s1 == old.players[1].score - RackPoints(old.players[1].rack, 1)
                 s2 == old.players[2].score - RackPoints(old.players[2].rack, 1)
             IN /\ new.gameOver
                /\ new.players[1].score = s1
                /\ new.players[2].score = s2
                /\ new.winner = IF s1 > s2 THEN new.players[1].name
                                ELSE IF s2 > s1 THEN new.players[2].name
                                ELSE "Tie"]_roomVars

\* four passes ended a game in which a play had scored, and settled it
C9_Witness ==
  \E code \in DOMAIN rooms :
    /\ rooms[code].gameOver
    /\ rooms[code].consecutivePasses = 4
    /\ handled.type = "pass_turn"
    /\ Len(rooms[code].moveHistory) = 5
    /\ rooms[code].winner = rooms[code].players[1].name

RackFreeFields ==
  {"type", "code", "playerId", "message", "error", "word", "player", "score"}

\* the room with the rack of slot i replaced
WithRack(room, i, rack) == [room EXCEPT !.players[i].rack = rack]

Reverse(seq) == [i \in 1 .. Len(seq) |-> seq[Len(seq) + 1 - i]]

\* other racks of the same size
AltRacks(rack) ==
  {Reverse(rack),
   [i \in 1 .. Len(rack) |->
      [id |-> 1000 + i, letter |-> "Z", value |-> 10, isBlank |-> FALSE]]}

\* every message sent is either free of rack data or the game_state of a
\* slot held by the receiving socket; that snapshot carries the slot's own
\* rack and the size of the opponent's, and is the same for every other
\* content of the opponent's rack
ScopedViews ==
  \A k \in DOMAIN sent :
    LET m == sent[k] IN
    IF m.data.type # "game_state"
      THEN DOMAIN m.data \subseteq RackFreeFields
      ELSE \E code \in DOMAIN rooms :
             \E i \in DOMAIN rooms[code].players :
               LET room == rooms[code]
                   me == room.players[i]
                   oi == findOtherIndex(room.players, me.id)
               IN /\ me.ws = m.ws
                  /\ m.data.yourRack = me.rack
                  /\ m.data = getRoomState(room, me.id)
                  /\ oi # -1 =>
                       /\ \A alt \in AltRacks(room.players[oi + 1].rack) :
                            getRoomState(WithRack(room, oi + 1, alt), me.id) = m.data
                       /\ m.data.opponentRackCount = Len(room.players[oi + 1].rack)

\* the messages of a list that go to one socket
SentTo(msgs, ws) == FilterIdx(msgs, {k \in DOMAIN msgs : msgs[k].ws = ws}, 1)

\* the pass of connection c is the fourth in a row
Settles(c) == HoldsTurn(c) /\ RoomOf(c).consecutivePasses = MAX_PASSES - 1

\* A pass_turn handled for a game in progress between two sockets sends
\* each player what it would send were the opponent's rack any other rack
\* of the same size; settling passes are included or not.
PassViews(settling) ==
  \A c \in Conns :
    (/\ handled'.type = "pass_turn" /\ handled'.ws = c
     /\ HasRoom(c) /\ RoomOf(c).started /\ ~RoomOf(c).gameOver
     /\ Len(RoomOf(c).players) = 2
     /\ RoomOf(c).players[1].ws # RoomOf(c).players[2].ws
     /\ settling \/ ~Settles(c))
    => \A i \in 1 .. 2 :
         \A alt \in AltRacks(RoomOf(c).players[3 - i].rack) :
           SentTo(passTurn(WithRack(RoomOf(c), 3 - i, alt), conn[c].playerId).sent,
                  RoomOf(c).players[i].ws)
           = SentTo(sent', RoomOf(c).players[i].ws)

\* C10 as claimed: every message the server sends a player carries that
\* player's own rack and only the count of the opponent's, and from two
\* room states that differ only in the contents of the opponent's rack
\* the messages sent to the player are identical.
C10_ViewsIndependentOfOpponentRack ==
  [][ScopedViews' /\ PassViews(TRUE)]_roomVars

\* C10 amended: the same, except for the pass that settles the game, whose
\* scores carry the value of the opponent's rack.
C10_PlayerScopedViews ==
  [][ScopedViews' /\ PassViews(FALSE)]_roomVars

\* after a play, a pass that does not settle the game sent both players
\* their own snapshot, racks differing
C10_Witness ==
  /\ handled.type = "pass_turn"
  /\ Len(sent) = 2
  /\ sent[1].data.type = "game_state"
  /\ sent[2].data.type = "game_state"
  /\ sent[1].ws # sent[2].ws
  /\ sent[1].data.yourRack # sent[2].data.yourRack
  /\ sent[1].data.opponentRackCount = Len(sent[2].data.yourRack)
  /\ HasRoom(handled.ws)
  /\ ~RoomOf(handled.ws).gameOver
  /\ ~RoomOf(handled.ws).isFirstMove

(***************************************************************************)
(* Properties of the single-player game                                    *)
(***************************************************************************)

InGame == gameState # NoGame

\* tiles in the bag, in both racks, on the board and pending
SoloTiles ==
  Len(gameState.tileBag) + Len(gameState.playerRack) + Len(gameState.aiRack)
  + Cardinality(DOMAIN gameState.board) + Len(pendingTiles)

\* what C6 says a finished game keeps
SoloOutcome(state) ==
  [board |-> state.board, playerRack |-> state.playerRack,
   aiRack |-> state.aiRack, tileBag |-> state.tileBag,
   playerScore |-> state.playerScore, aiScore |-> state.aiScore,
   winner |-> state.winner, gameOver |-> state.gameOver]

\* C6: once the single-player game is over it stays over, and no step but
\* the start of a new game changes the board, the racks, the bag, the
\* scores or the winner.
C6_SoloGameOverIsPermanent ==
  [][IF InGame
       THEN (gameState.gameOver /\ engineTileIdCounter' = engineTileIdCounter)
            => SoloOutcome(gameState') = SoloOutcome(gameState)
       ELSE TRUE]_soloVars

\* C7: in every reachable state of a single-player game the tiles in the
\* bag, in both racks, on the board and pending number exactly the tiles
\* the game was dealt (100 in the program).
C7_SoloTileConservation ==
  IF InGame THEN SoloTiles = soloDealt ELSE TRUE

\* the last record of a history one record longer than before
PlayedNow(before, after) ==
  /\ Len(after) = Len(before) + 1
  /\ after[Len(after)].type = "play"

\* C8: a play that leaves the bag and the mover's rack empty ends the game,
\* gives the mover the score of the move plus the value v of the other
\* side's rack and takes v from the other side; for place_tiles in a room,
\* for submitMove and for the AI's callback.
C8_GoingOutSettlement ==
  [][/\ \A code \in DOMAIN rooms \cap DOMAIN rooms' :
          LET old == rooms[code]
              new == rooms'[code]
              pi == findIndex(old.players, conn[handled'.ws].playerId) + 1
              oi == 3 - pi
              v == RackPoints(old.players[oi].rack, 1)
          IN (/\ handled'.type = "place_tiles"
              /\ PlayedNow(old.moveHistory, new.moveHistory)
              /\ new.tileBag = <<>>
              /\ new.players[pi].rack = <<>>)
             => /\ new.gameOver
                /\ new.players[pi].score =
                     old.players[pi].score
                     + new.moveHistory[Len(new.moveHistory)].score + v
                /\ new.players[oi].score = old.players[oi].score - v
     /\ IF InGame /\ engineTileIdCounter' = engineTileIdCounter
          THEN LET old == gameState
                   new == gameState'
                   last == new.moveHistory[Len(new.moveHistory)]
               IN /\ (/\ PlayedNow(old.moveHistory, new.moveHistory)
                      /\ last.player = "player"
                      /\ new.tileBag = <<>>
                      /\ new.playerRack = <<>>)
                     => /\ new.gameOver
                        /\ new.playerScore =
                             old.playerScore + last.score
                             + RackPoints(old.aiRack, 1)
                        /\ new.aiScore =
                             old.aiScore - RackPoints(old.aiRack, 1)
                  /\ (/\ PlayedNow(old.moveHistory, new.moveHistory)
                      /\ last.player = "ai"
                      /\ new.tileBag = <<>>
                      /\ new.aiRack = <<>>)
                     => /\ new.gameOver
                        /\ new.aiScore =
                             old.aiScore + last.score
                             + RackPoints(old.playerRack, 1)
                        /\ new.playerScore =
                             old.playerScore - RackPoints(old.playerRack, 1)
          ELSE TRUE]_vars

\* the AI went out against a player holding tiles
C8_Witness ==
  /\ InGame
  /\ IF InGame
       THEN /\ gameState.gameOver
            /\ gameState.tileBag = <<>>
            /\ gameState.aiRack = <<>>
            /\ gameState.playerRack # <<>>
            /\ gameState.moveHistory # <<>>
            /\ gameState.moveHistory[Len(gameState.moveHistory)].player = "ai"
            /\ gameState.moveHistory[Len(gameState.moveHistory)].type = "play"
            /\ gameState.moveHistory[Len(gameState.moveHistory)].score > 0
       ELSE FALSE

(***************************************************************************)
(* Properties of the message handler, of connections and of the clock      *)
(***************************************************************************)

TurnActions == {"place_tiles", "pass_turn", "exchange_tiles"}

\* C11: no handler ends by an exception that escapes it, whatever the
\* message: a text that is not JSON is dropped without reply and without
\* change of state, a JSON value of an unexpected shape and a turn action
\* of a connection that is in no room do not throw.
C11_ErrorIsolation ==
  [][/\ ~threw'
     /\ (handled'.type = "raw" /\ ~JSONparse(handled'.raw).ok)
          => (sent' = <<>> /\ rooms' = rooms /\ conn' = conn)
     /\ (handled'.type \in TurnActions /\ ~HasRoom(handled'.ws))
          => (sent' = <<>> /\ rooms' = rooms /\ conn' = conn)]_roomVars

\* C12: a pass_turn or exchange_tiles processed in a started room whose
\* game is not over, while its sender does not hold the turn, is answered
\* by one rejection that goes to the sender, and leaves the room unchanged.
C12_OutOfTurnPassExchangeReported ==
  [][\A c \in Conns :
       (/\ handled'.type \in {"pass_turn", "exchange_tiles"}
        /\ handled'.ws = c
        /\ HasRoom(c) /\ RoomOf(c).started /\ ~RoomOf(c).gameOver
        /\ ~HoldsTurn(c))
       => (/\ Len(sent') = 1
           /\ sent'[1].ws = c
           /\ sent'[1].data.type \in {"error", "move_rejected"}
           /\ rooms' = rooms)]_roomVars

\* a join_room that fails: the code names no room, or a room whose two
\* players are connected
JoinFails(code) ==
  \/ code \notin DOMAIN rooms
  \/ /\ Len(rooms[code].players) >= 2
     /\ \A i \in 1 .. Len(rooms[code].players) : rooms[code].players[i].connected

\* C13: a join_room for a code that is not in the room table, or for a
\* room that has two connected players, sends exactly one error to the
\* sender, and changes no room, no binding of a connection to a room and
\* creates nothing.
C13_JoinFailureChangesNothing ==
  [][(handled'.type = "join_room" /\ JoinFails(handled'.code))
     => (/\ Len(sent') = 1
         /\ sent'[1].ws = handled'.ws
         /\ sent'[1].data.type = "error"
         /\ rooms' = rooms
         /\ conn' = conn
         /\ tileIdCounter' = tileIdCounter)]_roomVars

\* a third connection was refused by a room whose two players are
\* connected, and stays without room
C13_Witness ==
  /\ handled.type = "join_room"
  /\ handled.code \in DOMAIN rooms
  /\ sent = <<[ws |-> handled.ws,
               data |-> [type |-> "error", message |-> "Room is full"]]>>
  /\ conn[handled.ws].currentRoomCode = ""
  /\ \A i \in 1 .. 2 : rooms[handled.code].players[i].ws # handled.ws

\* C14: the deletion a close handler schedules removes the room only if
\* nobody came back since: when a timer removes a room, no later moment at
\* which all slots of that room became disconnected is still within its
\* grace period (each such moment has its own timer, due a grace period
\* later).
C14_GracePeriod ==
  [][(/\ handled'.type = "timeout"
      /\ handled'.code \in DOMAIN rooms
      /\ handled'.code \notin DOMAIN rooms')
     => \A k \in DOMAIN graceTimers' :
          graceTimers'[k].code = handled'.code => graceTimers'[k].due <= now]_roomVars

\* the first two messages of msgs that went to the socket ws
FirstTwoTo(msgs, ws) == SubSeq(SentTo(msgs, ws), 1, 2)

\* C15: a join_room for a room with two players of which one is marked
\* disconnected binds the connection to a disconnected slot; the slot
\* keeps its id, name, rack and score and becomes connected, the other
\* slot, the board, the bag, the turn index, the pass counter and the
\* history are unchanged, and the connection receives reconnected followed
\* by the game_state of its slot.
C15_ReconnectInheritsSlot ==
  [][(/\ handled'.type = "join_room"
      /\ handled'.code \in DOMAIN rooms
      /\ Len(rooms[handled'.code].players) = 2
      /\ \E i \in 1 .. 2 : ~rooms[handled'.code].players[i].connected)
     => LET c == handled'.ws
            old == rooms[handled'.code]
            new == rooms'[handled'.code]
        IN \E i \in 1 .. 2 :
             /\ ~old.players[i].connected
             /\ new.players[i] =
                  [ws |-> c, id |-> old.players[i].id,
                   name |-> old.players[i].name, rack |-> old.players[i].rack,
                   score |-> old.players[i].score, connected |-> TRUE]
             /\ new.players[3 - i] = old.players[3 - i]
             /\ conn'[c].playerId = old.players[i].id
             /\ conn'[c].currentRoomCode = handled'.code
             /\ GameFields(new) = GameFields(old)
             /\ new.started = old.started /\ new.createdAt = old.createdAt
             /\ Len(SentTo(sent', c)) >= 2
             /\ FirstTwoTo(sent', c)[1].data =
                  [type |-> "reconnected", playerId |-> old.players[i].id]
             /\ FirstTwoTo(sent', c)[2].data.type = "game_state"
             /\ FirstTwoTo(sent', c)[2].data.yourRack = old.players[i].rack
             /\ FirstTwoTo(sent', c)[2].data.yourScore = old.players[i].score
             /\ FirstTwoTo(sent', c)[2].data.yourName = old.players[i].name
             /\ FirstTwoTo(sent', c)[2].data.moveHistory = old.moveHistory]_roomVars

\* a third connection took over the slot of a player who left a started
\* game after a turn action, while the other player stayed
C15_Witness ==
  /\ handled.type = "join_room"
  /\ Len(sent) = 3
  /\ sent[1].data.type = "reconnected"
  /\ sent[3].ws # handled.ws
  /\ HasRoom(handled.ws)
  /\ Len(RoomOf(handled.ws).moveHistory) >= 1
  /\ \E i \in 1 .. 2 :
       /\ RoomOf(handled.ws).players[i].ws = handled.ws
       /\ RoomOf(handled.ws).players[i].id = conn[handled.ws].playerId
       /\ Len(RoomOf(handled.ws).players[i].rack) >= 1

\* a connection that was seated in a room that no longer exists
FormerPlayer(c) ==
  /\ conn[c].playerId # 0
  /\ \A code \in DOMAIN rooms :
       \A i \in 1 .. Len(rooms[code].players) :
         rooms[code].players[i].id # conn[c].playerId

\* C16: a sweep deletes exactly the rooms created more than one hour
\* before it, whatever their connections and their game, and leaves the
\* others as they are; a turn action of a connection whose room was
\* deleted changes no room.
C16_IdleSweep ==
  [][/\ handled'.type = "sweep"
          => /\ DOMAIN rooms' =
                  {code \in DOMAIN rooms :
                     now - rooms[code].createdAt <= ROOM_MAX_AGE}
             /\ \A code \in DOMAIN rooms' : rooms'[code] = rooms[code]
     /\ (handled'.type \in TurnActions /\ FormerPlayer(handled'.ws))
          => rooms' = rooms]_roomVars

\* a player of a swept room sent a turn action while a later room of the
\* same code, created one period after the first hour, was in progress
C16_Witness ==
  /\ handled.type \in TurnActions
  /\ FormerPlayer(handled.ws)
  /\ HasRoom(handled.ws)
  /\ RoomOf(handled.ws).started
  /\ ~RoomOf(handled.ws).gameOver
  /\ RoomOf(handled.ws).createdAt = ROOM_MAX_AGE + SWEEP_INTERVAL

(***************************************************************************)
(* Properties of the single-player game's callbacks                        *)
(***************************************************************************)

\* C17: at most one callback of the AI is pending at any time, whatever
\* the order of the calls of submitMove, passTurn and exchangeTiles.
C17_OneAiComputation == Len(timers) <= 1

(***************************************************************************)
(* Properties of a room's turns                                            *)
(***************************************************************************)

\* a turn action the server accepted: it answered with the state of the
\* room, and with no rejection
Accepted(msgs) ==
  /\ \E k \in DOMAIN msgs : msgs[k].data.type = "game_state"
  /\ \A k \in DOMAIN msgs : msgs[k].data.type \notin {"error", "move_rejected"}

IsPrefix(s, t) == Len(s) <= Len(t) /\ SubSeq(t, 1, Len(s)) = s

\* C18: an accepted place_tiles, pass_turn or exchange_tiles appends
\* exactly one record to the history of the sender's room and flips its
\* turn index once; any other message leaves history and turn index of
\* every room as they are; the records of a history are never changed or
\* removed; and in every state the turn index of a room is the number of
\* its history records modulo 2.
C18_OneTransitionPerMessage ==
  [][\A code \in DOMAIN rooms' :
       LET new == rooms'[code]
           mine == /\ handled'.type \in TurnActions
                   /\ conn[handled'.ws].currentRoomCode = code
                   /\ Accepted(sent')
       IN /\ new.currentTurnIndex = Len(new.moveHistory) % 2
          /\ code \in DOMAIN rooms =>
               /\ IsPrefix(rooms[code].moveHistory, new.moveHistory)
               /\ IF mine
                    THEN /\ Len(new.moveHistory) = Len(rooms[code].moveHistory) + 1
                         /\ new.currentTurnIndex =
                              (rooms[code].currentTurnIndex + 1) % 2
                    ELSE /\ new.moveHistory = rooms[code].moveHistory
                         /\ new.currentTurnIndex = rooms[code].currentTurnIndex]_roomVars

\* a rejected message was handled in a room whose history holds a play, a
\* pass and an exchange
C18_Witness ==
  /\ handled.type \in TurnActions
  /\ HasRoom(handled.ws)
  /\ ~Accepted(sent) /\ sent # <<>>
  /\ \A type \in {"play", "pass", "exchange"} :
       CountType(RoomOf(handled.ws).moveHistory, type) >= 1

(***************************************************************************)
(* Properties of validatePlacement                                         *)
(***************************************************************************)

Called == verdict # NoCall

PlacedCells == {<<placement.tiles[i].row, placement.tiles[i].col>> :
                  i \in 1 .. Len(placement.tiles)}

OnBoard(p) == p[1] \in 0 .. 14 /\ p[2] \in 0 .. 14

Collinear ==
  \/ \A p, q \in PlacedCells : p[1] = q[1]
  \/ \A p, q \in PlacedCells : p[2] = q[2]

CoversCenter == <<7, 7>> \in PlacedCells

\* some placed tile is next to an occupied cell, in its row or its column
Adjoins ==
  \E p \in PlacedCells, q \in DOMAIN placement.board :
    \/ p[1] = q[1] /\ (p[2] - q[2]) \in {-1, 1}
    \/ p[2] = q[2] /\ (p[1] - q[1]) \in {-1, 1}

\* the cells from the least to the greatest placed coordinate, in both
\* directions: for a collinear placement the stretch of its line
Stretch ==
  {p \in Coord :
     /\ \E q \in PlacedCells : q[1] <= p[1]
     /\ \E q \in PlacedCells : q[1] >= p[1]
     /\ \E q \in PlacedCells : q[2] <= p[2]
     /\ \E q \in PlacedCells : q[2] >= p[2]}

GapReported ==
  /\ ~verdict.result.valid
  /\ verdict.result.error \in {"Gaps in placement", "Gaps in word placement"}

\* what the gap rule takes for granted: a placement in one line, on empty
\* cells of the board, that meets the first-move or the connection rule
GapRuleApplies ==
  /\ PlacedCells # {}
  /\ Collinear
  /\ \A p \in PlacedCells : OnBoard(p) /\ p \notin DOMAIN placement.board
  /\ IF placement.isFirstMove
       THEN CoversCenter /\ Len(placement.tiles) >= 2
       ELSE Adjoins

\* C19: for such a placement validatePlacement, the server's and the
\* engine's, reports a gap exactly when some cell of the stretch between
\* the least and the greatest placed coordinate is neither newly placed
\* nor occupied on the board; without a gap the placement is valid.
C19_GapRule ==
  (Called /\ GapRuleApplies)
    => /\ GapReported <=> (\E p \in Stretch :
                             p \notin PlacedCells /\ p \notin DOMAIN placement.board)
       /\ ~GapReported => verdict.result.valid

\* the engine refused a placement for its gap although a tile of the
\* board lies within the stretch, and the server accepted two tiles that
\* a tile of the board joins
C19_Witness ==
  /\ Called
  /\ GapRuleApplies
  /\ \E p \in Stretch : p \in DOMAIN placement.board
  /\ \/ verdict.by = "engine" /\ GapReported
     \/ /\ verdict.by = "server" /\ verdict.result.valid
        /\ \E p \in Stretch : p \notin PlacedCells

\* C20: on the first move validatePlacement rejects every placement that
\* does not include the cell (7,7) and every placement of fewer than 2
\* tiles; after the first move it rejects every placement of which no
\* tile is next to an occupied cell of the board, in its row or column.
C20_FirstMoveAndConnection ==
  Called =>
    /\ (placement.isFirstMove /\ (~CoversCenter \/ Len(placement.tiles) < 2))
         => ~verdict.result.valid
    /\ (~placement.isFirstMove /\ ~Adjoins) => ~verdict.result.valid

\* a placement in line, on free cells of the board, was rejected by one of
\* the two rules alone: two tiles beside the centre on the first move, or
\* a tile that touches the board's tile only by a corner
C20_Witness ==
  /\ Called
  /\ Collinear
  /\ \A p \in PlacedCells : OnBoard(p) /\ p \notin DOMAIN placement.board
  /\ \/ /\ placement.isFirstMove
        /\ Len(placement.tiles) = 2
        /\ verdict.result.error \in {"First word must cover center",
                                     "First word must cover the center square"}
     \/ /\ ~placement.isFirstMove
        /\ PlacedCells = {<<8, 8>>}
        /\ <<7, 7>> \in DOMAIN placement.board
        /\ verdict.result.error = "Word must connect to existing tiles"

(***************************************************************************)
(* Properties of calculateScore and calculateMoveScore                     *)
(***************************************************************************)

\* the total the function named by verdict.by gives for a list of tiles
ScoreOf(by, board, tiles) ==
  IF by = "server" THEN calculateScore(board, tiles)
                   ELSE calculateMoveScore(board, tiles)

\* C21: for every board and every list of placed tiles that
\* validatePlacement accepts, calculateScore (server) and
\* calculateMoveScore (engine) give every order of the list the same total.
C21_ScoreOrderIndependent ==
  Called => verdict.score = ScoreOf(verdict.by, placement.board, placement.tiles)

\* the list of tiles in the order of the call
Handed ==
  IF "order" \in DOMAIN verdict THEN InOrder(placement.tiles, verdict.order)
                                ELSE placement.tiles

\* the board after the call's tiles are on it
After == ApplyTiles(placement.board, Handed)

\* the occupied cells that p's row, or p's column, joins to p without a
\* break on the board after the placement
RowRun(p) ==
  {q \in DOMAIN After :
     /\ q[1] = p[1]
     /\ \A c \in Min(p[2], q[2]) .. Max(p[2], q[2]) : <<p[1], c>> \in DOMAIN After}
ColRun(p) ==
  {q \in DOMAIN After :
     /\ q[2] = p[2]
     /\ \A r \in Min(p[1], q[1]) .. Max(p[1], q[1]) : <<r, p[2]>> \in DOMAIN After}

\* the words of the placement: the runs of two or more tiles, across or
\* down, that hold a placed tile
Words ==
  {w \in {RowRun(p) : p \in PlacedCells} \cup {ColRun(p) : p \in PlacedCells} :
     Cardinality(w) >= 2}

LetterFactor(p) == IF p \in DL THEN 2 ELSE IF p \in TL THEN 3 ELSE 1
WordFactor(p) ==
  IF p \in DW \/ p = <<7, 7>> THEN 2 ELSE IF p \in TW THEN 3 ELSE 1

RECURSIVE LetterSum(_, _)
\* the letter values of a word, those on the cells of `premium` multiplied
LetterSum(w, premium) ==
  IF w = {} THEN 0
  ELSE LET p == CHOOSE p \in w : TRUE
       IN After[p].value * (IF p \in premium THEN LetterFactor(p) ELSE 1)
          + LetterSum(w \ {p}, premium)

RECURSIVE WordProduct(_, _)
WordProduct(w, premium) ==
  IF w = {} THEN 1
  ELSE LET p == CHOOSE p \in w : TRUE
       IN (IF p \in premium THEN WordFactor(p) ELSE 1)
          * WordProduct(w \ {p}, premium)

RECURSIVE WordsTotal(_, _)
WordsTotal(ws, premium) ==
  IF ws = {} THEN 0
  ELSE LET w == CHOOSE w \in ws : TRUE
       IN LetterSum(w, premium) * WordProduct(w, premium)
          + WordsTotal(ws \ {w}, premium)

PremiumCells == DL \cup TL \cup DW \cup TW \cup {<<7, 7>>}

\* a word of the placement runs through a premium cell that a tile of the
\* board already occupied
ThroughOccupiedPremium ==
  \E w \in Words : w \cap PremiumCells \cap DOMAIN placement.board # {}

\* C22: when a word of the placement runs through a premium cell that was
\* occupied before the move, the total counts the multipliers of the cells
\* that were empty before the move only: the tile on the occupied premium
\* cell counts its face value, and the cell multiplies nothing.
C22_PremiumCountsOnce ==
  (Called /\ ThroughOccupiedPremium)
    => verdict.score
         = WordsTotal(Words, Coord \ DOMAIN placement.board)
           + (IF Len(placement.tiles) = 7 THEN 50 ELSE 0)

\* a word was scored through an occupied double-letter cell, and through
\* the occupied centre, for less than with those cells' multipliers
C22_Witness ==
  /\ Called
  /\ \E w \in Words : <<6, 6>> \in w /\ <<6, 6>> \in DOMAIN placement.board
  /\ \E w \in Words : <<7, 7>> \in w /\ <<7, 7>> \in DOMAIN placement.board
  /\ verdict.score < WordsTotal(Words, Coord)

\* the tiles C=3, A=1, T=1 on (7,6), (7,7), (7,8) of the empty board
CatOnCenter ==
  /\ placement.board = << >>
  /\ Len(Handed) = 3
  /\ \E i, j, k \in 1 .. 3 :
       /\ Handed[i].letter = "C" /\ Handed[i].value = 3
       /\ <<Handed[i].row, Handed[i].col>> = <<7, 6>>
       /\ Handed[j].letter = "A" /\ Handed[j].value = 1
       /\ <<Handed[j].row, Handed[j].col>> = <<7, 7>>
       /\ Handed[k].letter = "T" /\ Handed[k].value = 1
       /\ <<Handed[k].row, Handed[k].col>> = <<7, 8>>

\* C23: the total of a placement is the sum over its words of (the sum of
\* the letter values, a newly placed letter doubled on a double-letter
\* cell and tripled on a triple-letter cell) times (2 for each newly
\* placed letter on a double-word or centre cell and 3 for each on a
\* triple-word cell), plus 50 when exactly 7 tiles are placed and 0
\* otherwise; C, A, T on (7,6), (7,7), (7,8) of the empty board score 10.
C23_MoveScoreFormula ==
  Called =>
    /\ verdict.score
         = WordsTotal(Words, PlacedCells)
           + (IF Len(placement.tiles) = 7 THEN 50 ELSE 0)
    /\ CatOnCenter => verdict.score = 10

\* the example was scored in another order than C, A, T, or a line of
\* seven tiles from the triple-word cell (7,0) was scored with its bonus
C23_Witness ==
  /\ Called
  /\ \/ CatOnCenter /\ verdict.order # <<1, 2, 3>>
     \/ /\ Len(placement.tiles) = 7
        /\ <<7, 0>> \in PlacedCells
        /\ verdict.score = WordsTotal(Words, PlacedCells) + 50

(***************************************************************************)
(* Properties of a play's words                                            *)
(***************************************************************************)

\* the list of tiles lies across (in one row), else it lies down
Across == \A i \in 1 .. Len(Handed) : Handed[i].row = Handed[1].row

\* the main word lies as the list does; a crossword is found with the
\* first tile of the list that it runs through
FoundAt(w) ==
  IF (IF Across THEN \A p, q \in w : p[1] = q[1] ELSE \A p, q \in w : p[2] = q[2])
    THEN 0
    ELSE SetMin({i \in 1 .. Len(Handed) : <<Handed[i].row, Handed[i].col>> \in w})

\* the letters of a word, read from its first cell to its last
Spelled(w) ==
  [i \in 1 .. Cardinality(w) |->
     LET p == CHOOSE p \in w :
                Cardinality({q \in w : q[1] + q[2] < p[1] + p[2]}) = i - 1
     IN IF After[p].letter = "" THEN "?" ELSE After[p].letter]

\* the words of the placement that a lexicon does not hold
NotIn(lexicon) == {w \in Words : Spelled(w) \notin lexicon}

FirstFound(ws) == CHOOSE w \in ws : \A v \in ws : FoundAt(w) <= FoundAt(v)

\* the sender's place_tiles comes as far as the check of its words
ReachesWordCheck ==
  /\ placement.room # NoRoom
  /\ placement.room.started /\ ~placement.room.gameOver
  /\ findIndex(placement.room.players, conn[handled.ws].playerId)
       = placement.room.currentTurnIndex
  /\ placement.tiles # <<>>
  /\ \A i \in 1 .. Len(placement.tiles) :
       placement.tiles[i].id
         \in TileIds(placement.room.players[placement.room.currentTurnIndex + 1].rack)
  /\ validatePlacement(placement.board, placement.tiles, placement.isFirstMove).valid

WordRejection(c, word) ==
  <<[ws |-> c,
     data |-> [type |-> "move_rejected", error |-> "is not a valid word",
               word |-> word]]>>

\* the room of the last message is as its handler found it
RoomAsFound == HasRoom(handled.ws) /\ RoomOf(handled.ws) = placement.room

\* a place_tiles changes the room only if the lexicon holds every word,
\* and one that is not held is answered by a rejection naming the first
RoomWordsAllOrNothing ==
  (handled.type = "place_tiles" /\ placement.room # NoRoom)
    => /\ ~RoomAsFound => NotIn(COMMON_WORDS) = {}
       /\ (ReachesWordCheck /\ NotIn(COMMON_WORDS) # {})
            => /\ RoomAsFound
               /\ sent = WordRejection(handled.ws,
                                       Spelled(FirstFound(NotIn(COMMON_WORDS))))

\* submitMove comes as far as the check of its words
SubmitReachesWordCheck ==
  /\ placement.game # NoGame
  /\ placement.tiles # <<>>
  /\ engine_validatePlacement(placement.board, placement.tiles,
                              placement.isFirstMove).valid

\* the same of submitMove, its game and what it returns
SoloWordsAllOrNothing ==
  verdict # NoCall
    => /\ gameState # placement.game => NotIn(ENGINE_WORD_SET) = {}
       /\ (SubmitReachesWordCheck /\ NotIn(ENGINE_WORD_SET) # {})
            => /\ gameState = placement.game
               /\ pendingTiles = placement.tiles
               /\ verdict = [success |-> FALSE, error |-> "is not a valid word",
                             word |-> Spelled(FirstFound(NotIn(ENGINE_WORD_SET)))]

\* C24: a play is committed, by place_tiles in a room and by submitMove in
\* the single-player game, only if every word its tiles form, the main
\* word and every crossword, is in the lexicon; when one is not, nothing
\* is committed and the rejection names the first word, in the order in
\* which the words are found, that is not.
C24_WordsAllOrNothing == RoomWordsAllOrNothing /\ SoloWordsAllOrNothing

\* a place_tiles whose main word is in the lexicon and whose two
\* crosswords are not was rejected
C24_Witness ==
  /\ handled.type = "place_tiles"
  /\ placement.room # NoRoom
  /\ ReachesWordCheck
  /\ Cardinality(Words) = 3
  /\ Cardinality(NotIn(COMMON_WORDS)) = 2
  /\ sent # <<>> /\ sent[1].data.type = "move_rejected"

(***************************************************************************)
(* Properties of racks, bag and turn actions in a room                     *)
(***************************************************************************)

\* the last message was a place_tiles, or an exchange_tiles, that its
\* handler accepted: the room is no longer as the handler found it
AcceptedPlay ==
  handled.type = "place_tiles" /\ placement.room # NoRoom /\ ~RoomAsFound
AcceptedExchange ==
  handled.type = "exchange_tiles" /\ placement.room # NoRoom /\ ~RoomAsFound

\* the slot of the turn-holder in the room as found, before and after
MoverBefore == placement.room.players[placement.room.currentTurnIndex + 1]
MoverAfter == RoomOf(handled.ws).players[placement.room.currentTurnIndex + 1]

\* the tiles of the mover's rack that the message names, and the others
NamedIds ==
  IF handled.type = "place_tiles"
    THEN {placement.tiles[i].id : i \in 1 .. Len(placement.tiles)}
    ELSE placement.tileIds
Named ==
  FilterIdx(MoverBefore.rack,
            {i \in 1 .. Len(MoverBefore.rack) : MoverBefore.rack[i].id \in NamedIds}, 1)
Kept ==
  FilterIdx(MoverBefore.rack,
            {i \in 1 .. Len(MoverBefore.rack) : MoverBefore.rack[i].id \notin NamedIds}, 1)

\* C25: in every state of a room each rack holds at most 7 tiles, and
\* after an accepted place_tiles the mover's rack holds min(7, tiles left
\* after the play + tiles that were in the bag): the tiles left, then the
\* tiles from the front of the bag, which keeps the rest; a bag holding
\* fewer tiles than needed is drawn empty without an error.
C25_RackBoundAndRefill ==
  /\ \A code \in DOMAIN rooms : \A i \in 1 .. Len(rooms[code].players) :
       Len(rooms[code].players[i].rack) <= 7
  /\ AcceptedPlay
       => LET bag == placement.room.tileBag
              k == Min(7 - Len(Kept), Len(bag))
          IN /\ ~threw
             /\ Len(MoverAfter.rack) = Min(7, Len(Kept) + Len(bag))
             /\ MoverAfter.rack = Kept \o SubSeq(bag, 1, k)
             /\ RoomOf(handled.ws).tileBag = SubSeq(bag, k + 1, Len(bag))

\* a play of two tiles was accepted when the bag held one tile
C25_Witness ==
  /\ AcceptedPlay
  /\ Len(placement.tiles) = 2
  /\ Len(placement.room.tileBag) = 1
  /\ Len(MoverAfter.rack) = 6
  /\ RoomOf(handled.ws).tileBag = <<>>

(***************************************************************************)
(* Properties of createTileBag                                             *)
(***************************************************************************)

\* the number of tiles of a bag with this letter and value
CountOf(bag, letter, value) ==
  Cardinality({i \in 1 .. Len(bag) : bag[i].letter = letter /\ bag[i].value = value})

\* a bag holds each letter of the table as often as the table says, with
\* its value, and the table's "?" as blanks without letter and value
MatchesTable(bag) ==
  \A k \in 1 .. Len(TILE_DISTRIBUTION) :
    LET d == TILE_DISTRIBUTION[k]
    IN IF d.letter = "?"
         THEN /\ d.count = 2
              /\ CountOf(bag, "", 0) = 2
              /\ \A i \in 1 .. Len(bag) : bag[i].isBlank <=> bag[i].letter = ""
         ELSE CountOf(bag, d.letter, d.value) = d.count

\* C26: whatever the shuffle draws, createTileBag returns exactly 100
\* tiles with pairwise distinct ids, 98 letters and 2 blanks, whose
\* letters and values are those of the distribution table, and the bags of
\* different calls of one program have no tile in common.
C26_TileBag ==
  \A m \in 1 .. Len(BagsSoFar) :
    LET bag == BagsSoFar[m]
    IN /\ Len(bag) = 100
       /\ \A i, j \in 1 .. Len(bag) : bag[i].id = bag[j].id => i = j
       /\ Cardinality({i \in 1 .. Len(bag) : bag[i].isBlank}) = 2
       /\ MatchesTable(bag)
       /\ \A n \in 1 .. Len(BagsSoFar) :
            n # m /\ MadeBy[n] = MadeBy[m]
              => TileIds(bag) \cap TileIds(BagsSoFar[n]) = {}

\* two bags were made, the second by a shuffle that moved its first tile
C26_Witness ==
  /\ Len(BagsSoFar) = 2
  /\ "draw" \in DOMAIN placement
  /\ BagsSoFar[2][1].letter # "A"


(***************************************************************************)
(* Properties of an accepted place_tiles                                   *)
(***************************************************************************)

\* the room after the last message, and the slot of the mover's opponent
\* before it
RoomAfter == RoomOf(handled.ws)
OpponentBefore == placement.room.players[2 - placement.room.currentTurnIndex]

\* the mover went out: the bag and the mover's rack are empty after the play
WentOut == RoomAfter.tileBag = <<>> /\ MoverAfter.rack = <<>>

\* every tile of the message is on its cell of the board
PlacedOnBoard ==
  \A i \in 1 .. Len(placement.tiles) :
    TileAt(RoomAfter.board, <<placement.tiles[i].row, placement.tiles[i].col>>)
      = CellTile(placement.tiles[i])

\* score, flags, pass counter and turn after an accepted play
PlayEffects ==
  /\ MoverAfter.score
       = MoverBefore.score + calculateScore(placement.room.board, placement.tiles)
         + (IF WentOut THEN SumValues(OpponentBefore.rack) ELSE 0)
  /\ ~RoomAfter.isFirstMove
  /\ RoomAfter.consecutivePasses = 0
  /\ RoomAfter.currentTurnIndex = 1 - placement.room.currentTurnIndex

\* each connected player gets two messages: move_made, then the snapshot
\* of the room after the play made for that player
PlayMessages ==
  \A i \in 1 .. Len(RoomAfter.players) :
    LET p == RoomAfter.players[i]
    IN conn[p.ws].open =>
         /\ Len(SentTo(sent, p.ws)) = 2
         /\ SentTo(sent, p.ws)[1].data.type = "move_made"
         /\ SentTo(sent, p.ws)[1].data.player = MoverBefore.name
         /\ SentTo(sent, p.ws)[1].data.score
              = calculateScore(placement.room.board, placement.tiles)
         /\ SentTo(sent, p.ws)[2].data = getRoomState(RoomAfter, p.id)

\* C27: after an accepted place_tiles the placed tiles are on the board,
\* the mover's score has grown by the move score (plus the going-out
\* bonus), isFirstMove is false, the pass counter is 0, the turn is the
\* other player's, and each connected player receives move_made before the
\* game_state snapshot made for that player.
C27_AcceptedPlayEffects ==
  AcceptedPlay => PlacedOnBoard /\ PlayEffects /\ PlayMessages


(***************************************************************************)
(* Properties of exchange_tiles                                            *)
(***************************************************************************)

\* the last message was an exchange_tiles from the player on turn in a
\* started room whose game is not over
ExchangeByTurnHolder ==
  /\ handled.type = "exchange_tiles"
  /\ placement.room # NoRoom
  /\ placement.room.started
  /\ ~placement.room.gameOver
  /\ findIndex(placement.room.players, conn[handled.ws].playerId)
       = placement.room.currentTurnIndex

\* the one message of the refusal, to the sender
BagTooSmallError ==
  <<[ws |-> handled.ws,
     data |-> [type |-> "error", message |-> "Not enough tiles to exchange"]]>>

\* the exchange as the claim states it: the named tiles leave the rack,
\* as many tiles come from the front of the bag as found, the named tiles
\* are in the bag afterwards
ExchangeEffects ==
  LET bag == placement.room.tileBag
      n == Len(Named)
      drawn == SubSeq(bag, 1, n)
  IN /\ MoverAfter.rack = Kept \o drawn
     /\ TileIds(drawn) \cap TileIds(Named) = {}
     /\ TileIds(MoverAfter.rack) \cap TileIds(Named) = {}
     /\ TileIds(RoomAfter.tileBag)
          = TileIds(SubSeq(bag, n + 1, Len(bag))) \cup TileIds(Named)
     /\ Len(MoverAfter.rack) = Len(MoverBefore.rack)
     /\ Len(RoomAfter.tileBag) = Len(bag)
     /\ RoomAfter.consecutivePasses = 0
     /\ RoomAfter.moveHistory
          = Append(placement.room.moveHistory,
                   [player |-> MoverBefore.name, word |-> <<>>, score |-> 0,
                    type |-> "exchange"])
     /\ RoomAfter.currentTurnIndex = 1 - placement.room.currentTurnIndex

\* C28: an exchange_tiles of the turn-holder gets an error and leaves the
\* room unchanged when the bag holds fewer than 7 tiles; otherwise the
\* named rack tiles leave the rack, as many tiles are drawn from the bag
\* before the exchanged tiles rejoin it, rack size and bag size are
\* unchanged, the pass counter is 0, one exchange record is appended and
\* the turn advances.
C28_ExchangeByTurnHolder ==
  ExchangeByTurnHolder =>
    IF Len(placement.room.tileBag) < EXCHANGE_MIN_BAG
      THEN RoomAsFound /\ sent = BagTooSmallError
      ELSE ExchangeEffects

\* the turn-holder exchanged two tiles of the rack against a bag of seven
C28_Witness ==
  /\ ExchangeByTurnHolder
  /\ Len(placement.room.tileBag) = 7
  /\ Len(Named) = 2
  /\ ~RoomAsFound


\* the turn-holder's exchange_tiles names an id that is not in the rack
NamesUnownedTile ==
  /\ ExchangeByTurnHolder
  /\ \E id \in placement.tileIds : id \notin TileIds(MoverBefore.rack)

\* the sender got an error or a move_rejected, and nobody else a message
SenderRejected ==
  /\ sent # <<>>
  /\ \A k \in DOMAIN sent :
       /\ sent[k].ws = handled.ws
       /\ sent[k].data.type \in {"error", "move_rejected"}

\* C29: an exchange_tiles that names a tile id not in the sender's rack is
\* rejected: the sender receives a rejection and the room is unchanged (the
\* turn is not consumed, the pass counter is not reset).
C29_ExchangeUnownedRejected ==
  NamesUnownedTile => SenderRejected /\ RoomAsFound


(***************************************************************************)
(* Properties of the four-pass end of a single-player game                 *)
(***************************************************************************)

\* this step is a pass, of the player or of the AI, that ends the game by
\* bringing the pass counter to SOLO_MAX_PASSES
FourthSoloPass ==
  /\ gameState # NoGame
  /\ ~gameState.gameOver
  /\ gameState' # NoGame
  /\ gameState'.gameOver
  /\ gameState'.consecutivePasses >= SOLO_MAX_PASSES
  /\ gameState'.consecutivePasses = gameState.consecutivePasses + 1

\* the final scores are the scores before the pass minus the values of
\* the unplayed tiles of each side, the player's rack taken after the
\* recall of the pending tiles, and the winner is the higher final score
SettledByRacks ==
  /\ gameState'.playerScore
       = gameState.playerScore - calculateEndgameDeductions(gameState'.playerRack)
  /\ gameState'.aiScore
       = gameState.aiScore - calculateEndgameDeductions(gameState'.aiRack)
  /\ gameState'.winner = soloWinner(gameState'.playerScore, gameState'.aiScore)

\* C30: when a pass of the player or of the AI brings the pass counter of
\* a single-player game to 4, the game ends and each side's final score is
\* its score minus the value of all its unplayed tiles, the player's tiles
\* that were pending and are recalled by the pass included; the winner is
\* the side with the strictly higher final score, else a tie.
C30_SoloFourPassSettlement == [][FourthSoloPass => SettledByRacks]_vars


(***************************************************************************)
(* Properties of the order of validatePlacement's rules                    *)
(***************************************************************************)

\* the rule a result names, in the order of the specification: 0 for a
\* valid placement, 1 no tiles, 2 not in one line, 3 out of bounds or on
\* an occupied cell, 4 centre not covered, 5 fewer than two tiles, 6 no
\* contact with the board, 7 a gap
RuleReported ==
  LET e == verdict.result.error
  IN IF verdict.result.valid THEN 0
     ELSE IF e = "No tiles placed" THEN 1
     ELSE IF e = "Tiles must be in a single row or column" THEN 2
     ELSE IF e \in {"Tile out of bounds", "Cell already occupied"} THEN 3
     ELSE IF e \in {"First word must cover center",
                    "First word must cover the center square"} THEN 4
     ELSE IF e = "First word must be at least 2 letters" THEN 5
     ELSE IF e = "Word must connect to existing tiles" THEN 6
     ELSE IF e \in {"Gaps in placement", "Gaps in word placement"} THEN 7
     ELSE -1

\* the rules a placement breaks, each stated on the sets of cells; the
\* rules of the first move apply to a first move only, the contact rule
\* to a later move, and the gap rule to tiles in one line
RulesBroken ==
  {r \in 1 .. 7 :
     \/ r = 1 /\ Len(placement.tiles) = 0
     \/ r = 2 /\ ~Collinear
     \/ r = 3 /\ \E p \in PlacedCells : ~OnBoard(p) \/ p \in DOMAIN placement.board
     \/ r = 4 /\ placement.isFirstMove /\ ~CoversCenter
     \/ r = 5 /\ placement.isFirstMove /\ Len(placement.tiles) < 2
     \/ r = 6 /\ ~placement.isFirstMove /\ ~Adjoins
     \/ r = 7 /\ Len(placement.tiles) > 0 /\ Collinear
             /\ \E p \in Stretch : p \notin PlacedCells /\ p \notin DOMAIN placement.board}

\* C31: validatePlacement, the server's and the engine's, reports the
\* first failing rule in the order: no tiles; not in a single row or
\* column; out of bounds or occupied; on a first move centre not covered,
\* then fewer than 2 tiles; on a later move no contact; a gap.  A
\* placement that breaks several rules reports the earliest, a placement
\* that breaks none is valid, and the call leaves board and tiles alone.
C31_FirstFailingRule ==
  [][(verdict = NoCall /\ verdict' # NoCall)
       => /\ RuleReported' = (IF RulesBroken' = {} THEN 0 ELSE SetMin(RulesBroken'))
          /\ placement' = placement]_vars

\* a first move off the board, beside the centre and with a gap was
\* refused for its tile out of bounds
C31_Witness ==
  /\ Called
  /\ {3, 4, 7} \subseteq RulesBroken
  /\ RuleReported = 3

(***************************************************************************)
(* Properties of generateAIMove                                            *)
(***************************************************************************)

\* the callback of doAiTurn was the last step
AiCalled == verdict # NoCall /\ "index" \in DOMAIN verdict

\* the tiles are distinct tiles of the rack on distinct empty cells of the board
FromRackOntoFreeCells(board, rack, tiles) ==
  /\ \A i, j \in 1 .. Len(tiles) :
       i # j => /\ tiles[i].id # tiles[j].id
                /\ <<tiles[i].row, tiles[i].col>> # <<tiles[j].row, tiles[j].col>>
  /\ \A i \in 1 .. Len(tiles) :
       /\ tiles[i].id \in TileIds(rack)
       /\ ~OutOfBounds(tiles[i])
       /\ <<tiles[i].row, tiles[i].col>> \notin DOMAIN board

\* the words the tiles form are one at least and all in the lexicon
FormsLexiconWords(board, tiles) ==
  LET words == engine_getFormedWords(board, tiles)
  IN /\ Len(words) >= 1
     /\ \A w \in 1 .. Len(words) : engine_isValidWord(words[w].word)

\* the callback appended an AI pass and gave the turn back
AiPassRecorded ==
  /\ gameState.moveHistory # <<>>
  /\ gameState.moveHistory[Len(gameState.moveHistory)] = passRecord("ai")
  /\ gameState.board = placement.board
  /\ gameState.aiRack = placement.aiRack
  /\ gameState.currentTurn = "player"

\* C32: every placement generateAIMove returns uses pairwise distinct
\* tiles of the given rack on pairwise distinct empty in-bounds cells, is
\* accepted by validatePlacement for the given isFirstMove and forms at
\* least one word, every formed word in the lexicon; it returns none
\* exactly when the search found no candidate, and the caller then
\* records an AI pass.
C32_AiMoveLegalOrNone ==
  AiCalled =>
    /\ verdict.tiles # <<>> =>
         /\ FromRackOntoFreeCells(placement.board, placement.aiRack, verdict.tiles)
         /\ engine_validatePlacement(placement.board, verdict.tiles,
                                     placement.isFirstMove).valid
         /\ FormsLexiconWords(placement.board, verdict.tiles)
    /\ verdict.tiles = <<>>
         <=> possibleMoves(placement.board, placement.aiRack,
                           placement.isFirstMove) = <<>>
    /\ verdict.tiles = <<>> => AiPassRecorded

\* generateAIMove returned a placement of two tiles or more beside the
\* words of the board
C32_Witness ==
  /\ AiCalled
  /\ ~placement.isFirstMove
  /\ Len(verdict.tiles) >= 2
  /\ FormsLexiconWords(placement.board, verdict.tiles)

\* generateAIMove returned none and the callback recorded the pass
C32_WitnessNone ==
  AiCalled /\ verdict.tiles = <<>> /\ AiPassRecorded

\* the callback played the placement generateAIMove returned
AiPlaced == AiCalled /\ verdict.tiles # <<>>

\* the scores of the candidates are in descending order and the returned
\* placement is the candidate at the index drawn
RankedAt(scores, board, tiles, k) ==
  /\ \A i, j \in 1 .. Len(scores) : i < j => scores[i] >= scores[j]
  /\ k + 1 \in 1 .. Len(scores)
  /\ calculateMoveScore(board, tiles) = scores[k + 1]

\* C33: over the n candidates sorted by score descending, hard returns a
\* placement of the maximum score, medium one of rank index below
\* min(n, 3), easy one of rank index at least min(n - 1, floor(n / 2)),
\* so that for n >= 2 easy plays no candidate of the better half.
C33_SelectionPolicy ==
  AiPlaced =>
    LET n == Len(verdict.scores)
        k == verdict.index
    IN /\ RankedAt(verdict.scores, placement.board, verdict.tiles, k)
       /\ placement.difficulty = "hard" =>
            \A i \in 1 .. n :
              calculateMoveScore(placement.board, verdict.tiles) >= verdict.scores[i]
       /\ placement.difficulty = "medium" => k < Min(n, 3)
       /\ placement.difficulty = "easy" =>
            /\ k >= Min(n - 1, n \div 2)
            /\ n >= 2 => k >= n \div 2

\* easy played a candidate of the lower half, of a lower score than the best
C33_Witness ==
  /\ AiPlaced
  /\ placement.difficulty = "easy"
  /\ Len(verdict.scores) >= 4
  /\ verdict.index >= Len(verdict.scores) \div 2
  /\ verdict.scores[1] > verdict.scores[verdict.index + 1]

(***************************************************************************)
(* Properties of the single-player turn cycle                              *)
(***************************************************************************)

\* the player's submitMove, passTurn or exchangeTiles made record n and
\* left the game going, the turn with the AI
PlayerActed(n) ==
  /\ gameState # NoGame
  /\ ~gameState.gameOver
  /\ gameState.currentTurn = "ai"
  /\ Len(gameState.moveHistory) = n
  /\ gameState.moveHistory[n].player = "player"

\* the game is over, or the turn is the player's again with one AI
\* record, a play or a pass, after record n
AiAnswered(n) ==
  /\ gameState # NoGame
  /\ \/ gameState.gameOver
     \/ /\ gameState.currentTurn = "player"
        /\ timers = <<>>
        /\ Len(gameState.moveHistory) = n + 1
        /\ gameState.moveHistory[n + 1].player = "ai"
        /\ gameState.moveHistory[n + 1].type \in {"play", "pass"}

\* C34: after every accepted submitMove, passTurn or exchangeTiles that
\* does not end the game the scheduled callback eventually runs, and the
\* game reaches a state in which it is over or the turn is the player's
\* again with exactly one AI record appended since the player's action.
C34_AiTurnResolves ==
  \A n \in 1 .. MaxSoloMoves : PlayerActed(n) ~> AiAnswered(n)

\* the AI has answered the player's play with a play of its own
C34_Witness ==
  /\ gameState # NoGame
  /\ ~gameState.gameOver
  /\ gameState.currentTurn = "player"
  /\ timers = <<>>
  /\ Len(gameState.moveHistory) = 2
  /\ gameState.moveHistory[1].player = "player"
  /\ gameState.moveHistory[1].type = "play"
  /\ gameState.moveHistory[2].player = "ai"
  /\ gameState.moveHistory[2].type = "play"

(***************************************************************************)
(* Properties of the pass counter of a room                                *)
(***************************************************************************)

\* the number of pass records at the end of a move history
TrailingPasses(history) ==
  LET Others == {i \in 1 .. Len(history) : history[i].type # "pass"}
  IN IF Others = {} THEN Len(history) ELSE Len(history) - SetMax(Others)

\* C35: in every room the pass counter equals the number of consecutive
\* pass records at the end of the move history, lies between 0 and 4,
\* and is 4 only when the game is over.
C35_PassCounter ==
  \A code \in DOMAIN rooms :
    /\ rooms[code].consecutivePasses = TrailingPasses(rooms[code].moveHistory)
    /\ rooms[code].consecutivePasses \in 0 .. MAX_PASSES
    /\ rooms[code].consecutivePasses = MAX_PASSES => rooms[code].gameOver

\* a game of a play and four passes has ended with the counter at 4
C35_Witness ==
  \E code \in DOMAIN rooms :
    /\ rooms[code].consecutivePasses = MAX_PASSES
    /\ rooms[code].gameOver
    /\ Len(rooms[code].moveHistory) > MAX_PASSES

(***************************************************************************)
(* Properties of the binding of connections to player slots                *)
(***************************************************************************)

\* the slots, as <<code, index>>, that are marked connected and hold c
SlotsHeldBy(c) ==
  {s \in UNION {{<<code, i>> : i \in 1 .. Len(rooms[code].players)} :
                  code \in DOMAIN rooms} :
     /\ rooms[s[1]].players[s[2]].ws = c
     /\ rooms[s[1]].players[s[2]].connected}

\* the handler of the connection names the slot as its own
OwnsSlot(c, code, i) ==
  /\ conn[c].open
  /\ conn[c].currentRoomCode = code
  /\ conn[c].playerId = rooms[code].players[i].id

\* C36: after any sequence of create_room, join_room and close events
\* every open connection is bound to at most one slot over all rooms,
\* every slot marked connected holds an open connection whose handler
\* identifies itself as that slot, and so every slot of a closed
\* connection is marked disconnected.
C36_SlotBinding ==
  /\ \A c \in Sockets : conn[c].open => Cardinality(SlotsHeldBy(c)) <= 1
  /\ \A code \in DOMAIN rooms : \A i \in 1 .. Len(rooms[code].players) :
       rooms[code].players[i].connected =>
         OwnsSlot(rooms[code].players[i].ws, code, i)

(***************************************************************************)
(* Properties of the cells and the word of an accepted play                *)
(***************************************************************************)

\* the cells the play has filled and the tiles it has taken from the rack
CellsFilled == DOMAIN RoomAfter.board \ DOMAIN placement.room.board
TilesTaken ==
  {i \in 1 .. Len(MoverBefore.rack) :
     MoverBefore.rack[i].id \in TileIds(placement.tiles)}

\* the submitted tiles have pairwise distinct ids and pairwise distinct cells
DistinctIdsAndCells ==
  \A i, j \in 1 .. Len(placement.tiles) :
    i # j => /\ placement.tiles[i].id # placement.tiles[j].id
             /\ <<placement.tiles[i].row, placement.tiles[i].col>>
                  # <<placement.tiles[j].row, placement.tiles[j].col>>

\* the record the play has appended to the move history
PlayRecord == RoomAfter.moveHistory[Len(RoomAfter.moveHistory)]

\* C37: every accepted play occupies exactly as many previously empty
\* cells as the number of tiles it removes from the mover's rack (the
\* submitted tiles have pairwise distinct ids and cells) and records a
\* word of at least 2 letters; after the first accepted play at least
\* two cells of the board are occupied.
C37_PlayFillsCells ==
  AcceptedPlay =>
    /\ DistinctIdsAndCells
    /\ Cardinality(CellsFilled) = Cardinality(TilesTaken)
    /\ PlayRecord.type = "play"
    /\ Len(PlayRecord.word) >= 2
    /\ placement.room.isFirstMove => Cardinality(DOMAIN RoomAfter.board) >= 2

(***************************************************************************)
(* Properties of the state an AI move is applied to                        *)
(***************************************************************************)

\* a callback of doAiTurn runs in this step and commits a play
AiCommits ==
  /\ Len(timers') < Len(timers)
  /\ gameState # NoGame
  /\ gameState' # NoGame
  /\ Len(gameState'.moveHistory) = Len(gameState.moveHistory) + 1
  /\ gameState'.moveHistory[Len(gameState'.moveHistory)].player = "ai"
  /\ gameState'.moveHistory[Len(gameState'.moveHistory)].type = "play"

\* the tiles the committed play has placed
AiTilesPlaced == gameState'.moveHistory[Len(gameState'.moveHistory)].tiles

\* C38: whenever a callback commits an AI play, every tile it places is
\* in the AI rack of the state being updated and every target cell is
\* empty in that state: a callback scheduled before startNewGame or
\* before a further action of the player places no tile of an earlier
\* state on the board of the current game.
C38_AiMoveOnOwnState ==
  [][AiCommits =>
       \A i \in 1 .. Len(AiTilesPlaced) :
         /\ AiTilesPlaced[i].id \in TileIds(gameState.aiRack)
         /\ <<AiTilesPlaced[i].row, AiTilesPlaced[i].col>> \notin DOMAIN gameState.board]_vars

(***************************************************************************)
(* Properties of the board of a room                                       *)
(***************************************************************************)

\* two cells side by side in a row or a column
Orthogonal(p, q) ==
  \/ p[1] = q[1] /\ (p[2] = q[2] + 1 \/ q[2] = p[2] + 1)
  \/ p[2] = q[2] /\ (p[1] = q[1] + 1 \/ q[1] = p[1] + 1)

RECURSIVE ReachedFrom(_, _)
\* the cells of `cells` joined to a cell of S by a path of orthogonal steps
ReachedFrom(S, cells) ==
  LET next == S \cup {p \in cells : \E q \in S : Orthogonal(p, q)}
  IN IF next = S THEN S ELSE ReachedFrom(next, cells)

\* the board is empty on a first move only, and a board with tiles has
\* one on the centre to which every tile is joined
BoardJoined(room) ==
  /\ room.isFirstMove <=> DOMAIN room.board = {}
  /\ DOMAIN room.board # {} =>
       /\ <<7, 7>> \in DOMAIN room.board
       /\ ReachedFrom({<<7, 7>>}, DOMAIN room.board) = DOMAIN room.board

\* C39: in every reachable state of a room isFirstMove is true exactly
\* when the board has no tile, a board with tiles has one on (7,7) and
\* every occupied cell is joined to (7,7) by a path of orthogonally
\* adjacent occupied cells, and a cell once occupied holds the same tile
\* in every later state.
C39_BoardConnected ==
  /\ [](\A code \in DOMAIN rooms : BoardJoined(rooms[code]))
  /\ [][\A code \in DOMAIN rooms \cap DOMAIN rooms' :
          rooms'[code].createdAt = rooms[code].createdAt =>
            \A p \in DOMAIN rooms[code].board :
              /\ p \in DOMAIN rooms'[code].board
              /\ rooms'[code].board[p] = rooms[code].board[p]]_vars

\* a second play has been joined to the first
C39_Witness ==
  \E code \in DOMAIN rooms :
    /\ CountType(rooms[code].moveHistory, "play") >= 2
    /\ Cardinality(DOMAIN rooms[code].board) >= 3
    /\ \E p \in DOMAIN rooms[code].board : p[1] # 7

(***************************************************************************)
(* Properties of the agreement of engine and server                        *)
(***************************************************************************)

\* the total the other side's function gives for the tiles of the call
OtherScore ==
  IF verdict.by = "server" THEN calculateMoveScore(placement.board, Handed)
                           ELSE calculateScore(placement.board, Handed)

\* both sides give the list of tiles, in every order it is handed over,
\* the same validity
SameValidity ==
  \A order \in Orders(Len(placement.tiles)) :
    validatePlacement(placement.board, InOrder(placement.tiles, order),
                      placement.isFirstMove).valid
    = engine_validatePlacement(placement.board, InOrder(placement.tiles, order),
                               placement.isFirstMove).valid

====
